---- MODULE Spec2Model ----
(***************************************************************************)
(* State-machine model of the reconciliation modules of the amazon.aws     *)
(* collection: cloudwatchlogs_log_group_metric_filter, ec2_placement_group,*)
(* ec2_eip, the aws_secret lookup, ec2_spot_instance_info and route53_ksk. *)
(* Every module run is one action: the whole of main() applied to the      *)
(* state of the remote service.                                            *)
(*                                                                         *)
(* Python None and an absent dict key are both the empty tuple None; a     *)
(* present value v is the one-element tuple Some(v), so that d.get(k) can  *)
(* be compared across absent and present values.                           *)
(***************************************************************************)
EXTENDS Integers, Sequences, FiniteSets, TLC

None == <<>>
Some(v) == <<v>>

\* The elements of a finite set in some fixed order.
SetToSeq(S) == CHOOSE q \in [1..Cardinality(S) -> S] : {q[i] : i \in 1..Cardinality(S)} = S

\* How often a run issued the API call op.
Count(calls, op) == Cardinality({i \in 1..Len(calls) : calls[i] = op})

\* Number of successive runs of one module.
MaxRuns == 2

(***************************************************************************)
(* cloudwatchlogs_log_group_metric_filter                                  *)
(***************************************************************************)
VARIABLES mfFilters, mfBefore, mfParams, mfRuns, mfLast, mfPrev

mfVars == <<mfFilters, mfBefore, mfParams, mfRuns, mfLast, mfPrev>>

\* Filter names are character sequences, so that one can be a prefix of
\* another: "f" and "fx".
MFNameOrder == << <<"f">>, <<"f", "x">> >>
MFNames == {MFNameOrder[i] : i \in 1..Len(MFNameOrder)}

IsPrefix(p, n) == Len(p) <= Len(n) /\ SubSeq(n, 1, Len(p)) = p

MFPatterns == {"p1", "p2"}

\* A dimensions dict is a set of <<key, value>> pairs.
MFDimensions == {None, Some({}), Some({<<"Host", "h">>})}

\* module.params["metric_transformation"]: the suboptions of the argument
\* spec, each None when not given.
MFTransformations ==
    [metric_name : {Some("m1"), Some("m2")},
     metric_namespace : {Some("ns")},
     metric_value : {Some("1")},
     default_value : {None, Some(0)},
     unit : {None, Some("Count")},
     dimensions : MFDimensions]

MFParamSet ==
    [state : {"present", "absent"},
     filter_name : MFNames,
     filter_pattern : MFPatterns,
     metric_transformation : MFTransformations]

\* camel_to_snake on the keys that occur.
SnakeKey(k) ==
    CASE k = "Host" -> "host"
      [] OTHER -> k

\* camel_dict_to_snake_dict: the keys of the dict and of every nested dict
\* are converted.
camel_dict_to_snake_dict(mt) ==
    [metric_name |-> mt.metricName,
     metric_namespace |-> mt.metricNamespace,
     metric_value |-> mt.metricValue,
     default_value |-> mt.defaultValue,
     unit |-> mt.unit,
     dimensions |-> IF mt.dimensions = None THEN None
                    ELSE Some({<<SnakeKey(kv[1]), kv[2]>> : kv \in mt.dimensions[1]})]

MFCompared ==
    {"default_value", "metric_name", "metric_namespace", "metric_value", "unit", "dimensions"}

\* The change flag of metricTransformationHandler.  origin is None or
\* Some(the existing filter's first metric transformation).
MFHandlerChange(mt, origin) ==
    IF origin # None
    THEN \E item \in MFCompared : mt[item] # camel_dict_to_snake_dict(origin[1])[item]
    ELSE TRUE

\* The retval of metricTransformationHandler: the optional values are added
\* only when they are not None.
MFHandlerRetval(mt) ==
    [metricName |-> mt.metric_name,
     metricNamespace |-> mt.metric_namespace,
     metricValue |-> mt.metric_value,
     defaultValue |-> mt.default_value,
     dimensions |-> mt.dimensions,
     unit |-> mt.unit]

metricTransformationHandler(mt, origin) ==
    [retval |-> MFHandlerRetval(mt), change |-> MFHandlerChange(mt, origin)]

\* cwl.describe_metric_filters(filterNamePrefix=prefix): every filter of the
\* log group whose name starts with prefix.
describe_metric_filters(filters, prefix) ==
    LET hit(n) == filters[n] # None /\ IsPrefix(prefix, n)
        names == SelectSeq(MFNameOrder, hit)
    IN  [i \in 1..Len(names) |-> filters[names[i]][1]]

\* cwl.put_metric_filter creates or replaces the filter of that name.
put_metric_filter(filters, name, pattern, retval) ==
    [filters EXCEPT ![name] = Some([filterPattern |-> pattern, metricTransformations |-> retval])]

\* cwl.delete_metric_filter: the service answers ResourceNotFoundException
\* when the log group holds no filter of that name.
delete_metric_filter(filters, name) ==
    IF filters[name] = None
    THEN [raised |-> TRUE, filters |-> filters]
    ELSE [raised |-> FALSE, filters |-> [filters EXCEPT ![name] = None]]

MFResult(filters, outcome, changed, calls) ==
    [filters |-> filters, outcome |-> outcome, changed |-> changed, calls |-> calls]

\* The state=absent branch of main.
MFAbsent(filters, p, check_mode, origin) ==
    IF check_mode
    THEN MFResult(filters, "exit_json", TRUE, <<>>)
    ELSE LET del == delete_metric_filter(filters, p.filter_name)
             calls == << <<"delete_metric_filter", p.filter_name>> >>
         IN  IF del.raised
             THEN MFResult(filters, "exception", FALSE, calls)
             ELSE MFResult(del.filters, "exit_json", TRUE, calls)

\* The state=present branch of main.
MFPresent(filters, p, check_mode, origin, originPattern) ==
    LET mt == p.metric_transformation
        h == metricTransformationHandler(mt, origin)
        change == h.change \/ Some(p.filter_pattern) # originPattern
    IN  IF mt.default_value # None /\ mt.dimensions # None
        THEN MFResult(filters, "fail_json", FALSE, <<>>)
        ELSE IF change /\ ~check_mode
        THEN MFResult(put_metric_filter(filters, p.filter_name, p.filter_pattern, h.retval),
                      "exit_json", change,
                      << <<"put_metric_filter", p.filter_name>> >>)
        ELSE MFResult(filters, "exit_json", change, <<>>)

\* main() of the module, from the describe call to exit_json.
MFMain(filters, p, check_mode) ==
    LET response == describe_metric_filters(filters, p.filter_name)
        one == Len(response) = 1
        origin == IF one THEN Some(response[1].metricTransformations) ELSE None
        originPattern == IF one THEN Some(response[1].filterPattern) ELSE None
    IN  IF p.state = "absent" /\ origin # None
        THEN MFAbsent(filters, p, check_mode, origin)
        ELSE IF p.state = "present"
        THEN MFPresent(filters, p, check_mode, origin, originPattern)
        ELSE MFResult(filters, "exit_json", FALSE, <<>>)

\* What a run leaves behind for the caller: the mode, how it ended, the
\* changed flag and the mutating calls it issued.
MFSummary(check_mode, r) ==
    [check_mode |-> check_mode, outcome |-> r.outcome, changed |-> r.changed, calls |-> r.calls]

MFNoRun == [check_mode |-> FALSE, outcome |-> "none", changed |-> FALSE, calls |-> <<>>]

\* Filters a log group may hold before the first run: what put_metric_filter
\* stores for valid parameters.
MFInitTransformations ==
    {MFHandlerRetval(mt) : mt \in
        {m \in MFTransformations : m.metric_name = Some("m1") /\ m.unit = None
                                   /\ (m.default_value = None \/ m.dimensions = None)}}

MFInitStored ==
    [filterPattern : MFPatterns, metricTransformations : MFInitTransformations]

MFInit ==
    /\ mfFilters \in [MFNames -> {None} \cup {Some(s) : s \in MFInitStored}]
    /\ mfBefore = mfFilters
    /\ mfParams = None
    /\ mfRuns = 0
    /\ mfLast = MFNoRun
    /\ mfPrev = MFNoRun

\* One run of the module.  Successive runs use identical parameters; the
\* mode (check or live) is chosen per run.
MFRun(p, check_mode) ==
    /\ mfRuns < MaxRuns
    /\ mfParams = None \/ mfParams = Some(p)
    /\ LET r == MFMain(mfFilters, p, check_mode)
       IN  /\ mfFilters' = r.filters
           /\ mfLast' = MFSummary(check_mode, r)
    /\ mfBefore' = mfFilters
    /\ mfParams' = Some(p)
    /\ mfRuns' = mfRuns + 1
    /\ mfPrev' = mfLast

MFNext == \E p \in MFParamSet, check_mode \in BOOLEAN : MFRun(p, check_mode)


(***************************************************************************)
(* ec2_placement_group                                                     *)
(***************************************************************************)
VARIABLES pgGroups, pgBefore, pgParams, pgRuns, pgLast

pgVars == <<pgGroups, pgBefore, pgParams, pgRuns, pgLast>>

\* Attempts of one AWSRetry.exponential_backoff wrapper before it gives up.
MaxAttempts == 2

PGNames == {"pg", "other"}
PGStrategies == {"cluster", "spread", "partition"}

\* A tags dict is a set of <<key, value>> pairs.
PGTagDicts == {{}, {<<"env", "dev">>}}

PGParamSet ==
    [name : {"pg"},
     state : {"present", "absent"},
     strategy : PGStrategies,
     partition_count : {None, Some(2)},
     tags : {None, Some({<<"env", "dev">>})}]

\* What the service does to the calls of one run: whether the describe call
\* of search_placement_group, the create call and the delete call are
\* answered with a ClientError of their own (not DryRunOperation), whether
\* the describe call of search_placement_group also returns a group of the
\* same name shared by another account, and how many describe calls of
\* get_placement_group_information are answered with infoError before one
\* succeeds.
PGFaultChoices ==
    [search : BOOLEAN,
     shared : BOOLEAN,
     create : BOOLEAN,
     delete : BOOLEAN,
     info : 0..MaxAttempts,
     infoError : {"RequestLimitExceeded", "InvalidPlacementGroup.Unknown"}]

\* At most one kind of fault per run.
PGFaultSet ==
    {f \in PGFaultChoices :
        /\ Cardinality({k \in {"search", "shared", "create", "delete"} : f[k]}) + (IF f.info > 0 THEN 1 ELSE 0) <= 1
        /\ f.info = 0 => f.infoError = "RequestLimitExceeded"}

PGNoFaults ==
    [search |-> FALSE, shared |-> FALSE, create |-> FALSE, delete |-> FALSE, info |-> 0,
     infoError |-> "RequestLimitExceeded"]

\* boto3_tag_specifications / the Tags of the created group: the dict as a
\* sequence of [Key, Value]; an empty or missing dict gives no Tags at all.
PGTagList(tags) ==
    IF tags = None \/ tags = Some({}) THEN None
    ELSE LET pairs == SetToSeq(tags[1])
         IN  Some([i \in 1..Len(pairs) |-> [Key |-> pairs[i][1], Value |-> pairs[i][2]]])

\* boto3_tag_list_to_ansible_dict: the Key/Value list as a dict; a missing
\* list is the empty dict.
boto3_tag_list_to_ansible_dict(tagList) ==
    IF tagList = None THEN {}
    ELSE {<<tagList[1][i].Key, tagList[1][i].Value>> : i \in 1..Len(tagList[1])}

\* The dict search_placement_group and get_placement_group_information build
\* from a PlacementGroups entry.
PGDict(name, g) ==
    [name |-> name, state |-> g.State, strategy |-> g.Strategy,
     tags |-> Some(boto3_tag_list_to_ansible_dict(g.Tags))]

PGResult(groups, outcome, changed, pg, calls) ==
    [groups |-> groups, outcome |-> outcome, changed |-> changed,
     placement_group |-> pg, calls |-> calls]

\* The error codes AWSRetry retries: the throttling codes and the wrapper's
\* catch_extra_error_codes.
PGRetried(code, extra) == code = "RequestLimitExceeded" \/ code \in extra

\* get_placement_group_information under its backoff wrapper: the describe
\* call is repeated while it raises a retried code, at most MaxAttempts
\* times; the last error is raised to the caller.
RECURSIVE PGInfoRetry(_, _, _, _, _)
PGInfoRetry(groups, name, f, calls, attempt) ==
    LET calls1 == Append(calls, "describe_placement_groups")
    IN  IF f.info > 0
        THEN IF attempt < MaxAttempts
                  /\ PGRetried(f.infoError, {"InvalidPlacementGroup.Unknown"})
             THEN PGInfoRetry(groups, name, [f EXCEPT !.info = @ - 1], calls1, attempt + 1)
             ELSE [raised |-> Some(f.infoError), pg |-> None, calls |-> calls1,
                   f |-> [f EXCEPT !.info = @ - 1]]
        ELSE [raised |-> None, pg |-> Some(PGDict(name, groups[name][1])),
              calls |-> calls1, f |-> f]

\* One execution of the body of create_placement_group.  "raised" is the
\* error code that leaves the body; every other ending is exit_json or
\* fail_json.
PGCreateBody(groups, p, check_mode, f, calls) ==
    LET calls1 == Append(calls, "create_placement_group")
        created == [groups EXCEPT ![p.name] =
                       Some([State |-> "pending", Strategy |-> p.strategy,
                             Tags |-> PGTagList(p.tags)])]
        info == PGInfoRetry(created, p.name, f, calls1, 1)
    IN  IF p.strategy # "partition" /\ p.partition_count # None
        THEN [raised |-> None, f |-> f,
              res |-> PGResult(groups, "fail_json", FALSE, None, calls)]
        ELSE IF f.create
        THEN [raised |-> None, f |-> f,
              res |-> PGResult(groups, "fail_json", FALSE, None, calls1)]
        ELSE IF check_mode
        THEN [raised |-> None, f |-> f,
              res |-> PGResult(groups, "exit_json", TRUE,
                               Some([name |-> p.name, state |-> "DryRun",
                                     strategy |-> p.strategy, tags |-> p.tags]),
                               calls1)]
        ELSE IF groups[p.name] # None
        THEN [raised |-> None, f |-> f,
              res |-> PGResult(groups, "fail_json", FALSE, None, calls1)]
        ELSE IF info.raised # None
        THEN [raised |-> info.raised, f |-> info.f,
              res |-> PGResult(created, "exception", FALSE, None, info.calls)]
        ELSE [raised |-> None, f |-> info.f,
              res |-> PGResult(created, "exit_json", TRUE, info.pg, info.calls)]

\* create_placement_group under its backoff wrapper: the body is executed
\* again when a retried error code leaves it.
RECURSIVE create_placement_group(_, _, _, _, _, _)
create_placement_group(groups, p, check_mode, f, calls, attempt) ==
    LET b == PGCreateBody(groups, p, check_mode, f, calls)
    IN  IF b.raised # None /\ attempt < MaxAttempts /\ PGRetried(b.raised[1], {})
        THEN create_placement_group(b.res.groups, p, check_mode, b.f, b.res.calls, attempt + 1)
        ELSE b.res

\* delete_placement_group: with DryRun=True the service answers with the
\* DryRunOperation error code, which the except clause turns into
\* fail_json_aws like every other ClientError.
delete_placement_group(groups, p, check_mode, f, calls) ==
    LET calls1 == Append(calls, "delete_placement_group")
    IN  IF check_mode \/ f.delete \/ groups[p.name] = None
        THEN PGResult(groups, "fail_json", FALSE, None, calls1)
        ELSE PGResult([groups EXCEPT ![p.name] = None], "exit_json", TRUE, None, calls1)

\* The group of the same name that another account shares, as the describe
\* call returns it.
PGSharedGroup == [State |-> "available", Strategy |-> "cluster", Tags |-> None]

\* search_placement_group: None unless the describe call returns exactly one
\* group; a ClientError ends the run in fail_json_aws.
search_placement_group(groups, p, f) ==
    IF f.search THEN [failed |-> TRUE, pg |-> None]
    ELSE LET own == IF groups[p.name] = None THEN <<>> ELSE <<groups[p.name][1]>>
             response == own \o (IF f.shared THEN <<PGSharedGroup>> ELSE <<>>)
         IN  [failed |-> FALSE,
              pg |-> IF Len(response) # 1 THEN None
                     ELSE Some(PGDict(p.name, response[1]))]

\* main, state=present, the group was found.
PGPresentFoundRecreate(groups, p, check_mode, f, found, calls) ==
    IF found.strategy = p.strategy
    THEN PGResult(groups, "exit_json", FALSE, Some(found), calls)
    ELSE create_placement_group([groups EXCEPT ![p.name] = None], p, check_mode, f,
                                Append(calls, "delete_placement_group"), 1)

PGPresentFound(groups, p, check_mode, f, found, calls) ==
    IF found.strategy = p.strategy
    THEN PGResult(groups, "exit_json", FALSE, Some(found), calls)
    ELSE PGResult(groups, "fail_json", FALSE, None, calls)

\* main, the group was not found.
PGNotFoundAlwaysCreate(groups, p, check_mode, f, calls) ==
    create_placement_group(groups, p, check_mode, f, calls, 1)

PGNotFound(groups, p, check_mode, f, calls) ==
    IF p.state = "present"
    THEN create_placement_group(groups, p, check_mode, f, calls, 1)
    ELSE PGResult(groups, "exit_json", FALSE, None, calls)

\* main() of the module.
PGMain(groups, p, check_mode, f) ==
    LET s == search_placement_group(groups, p, f)
        calls == <<"describe_placement_groups">>
    IN  IF s.failed
        THEN PGResult(groups, "fail_json", FALSE, None, calls)
        ELSE IF s.pg = None
        THEN PGNotFound(groups, p, check_mode, f, calls)
        ELSE IF p.state = "present"
        THEN PGPresentFound(groups, p, check_mode, f, s.pg[1], calls)
        ELSE delete_placement_group(groups, p, check_mode, f, calls)

PGSummary(check_mode, f, r) ==
    [check_mode |-> check_mode, faults |-> f, outcome |-> r.outcome,
     changed |-> r.changed, placement_group |-> r.placement_group, calls |-> r.calls]

PGNoRun ==
    [check_mode |-> FALSE, faults |-> PGNoFaults, outcome |-> "none",
     changed |-> FALSE, placement_group |-> None, calls |-> <<>>]

\* The groups of the region before the first run: names are unique.
PGInitGroups ==
    [State : {"available"}, Strategy : PGStrategies,
     Tags : {PGTagList(Some(t)) : t \in PGTagDicts}]

PGInit ==
    /\ pgGroups \in [PGNames -> {None} \cup {Some(g) : g \in PGInitGroups}]
    /\ IF pgGroups["other"] = None THEN TRUE ELSE pgGroups["other"][1].Strategy = "cluster"
    /\ pgBefore = pgGroups
    /\ pgParams = None
    /\ pgRuns = 0
    /\ pgLast = PGNoRun

\* One run of the module; successive runs use identical parameters.
PGRun(p, check_mode, f) ==
    /\ pgRuns < MaxRuns
    /\ pgParams = None \/ pgParams = Some(p)
    /\ LET r == PGMain(pgGroups, p, check_mode, f)
       IN  /\ pgGroups' = r.groups
           /\ pgLast' = PGSummary(check_mode, f, r)
    /\ pgBefore' = pgGroups
    /\ pgParams' = Some(p)
    /\ pgRuns' = pgRuns + 1

PGNext == \E p \in PGParamSet, check_mode \in BOOLEAN, f \in PGFaultSet : PGRun(p, check_mode, f)

(***************************************************************************)
(* ec2_eip                                                                 *)
(***************************************************************************)
VARIABLES eipAddrs, eipBefore, eipParams, eipRuns, eipLast, eipPrev

eipVars == <<eipAddrs, eipBefore, eipParams, eipRuns, eipLast, eipPrev>>

\* Allocation ids; address n has PublicIp n and AllocationId n.  The account
\* holds at most two addresses before the first run, and every run can
\* allocate one more; the service never hands out the ip of EIPInitIds again.
EIPInitIds == {1, 2}
EIPIds == 1..(Cardinality(EIPInitIds) + MaxRuns)

EIPInstance == "i-1"
EIPInterface == "eni-1"
EIPDevices == {EIPInstance, EIPInterface}

\* device_id.startswith("i-")
IsInstanceId(d) == d = EIPInstance

EIPTagDicts == {{}, {<<"Name", "a">>}}

\* An address of the account: its Domain, the device it is associated with,
\* its tags and its reverse DNS domain name.
EIPAddress(domain, device, tags) ==
    [Domain |-> domain, Device |-> device, Tags |-> tags, PtrRecord |-> None]

\* The fields of a describe_addresses entry that the module reads.
AssociationId(a) == IF a.Domain = "vpc" /\ a.Device # None THEN Some("eipassoc") ELSE None
InstanceId(a) == IF a.Device # None /\ IsInstanceId(a.Device[1]) THEN a.Device ELSE None
NetworkInterfaceId(a) == IF a.Device # None /\ ~IsInstanceId(a.Device[1]) THEN a.Device ELSE None

EIPDefaults ==
    [state |-> "present", device_id |-> None, public_ip |-> None, in_vpc |-> FALSE,
     reuse_existing_ip_allowed |-> FALSE, release_on_disassociation |-> FALSE,
     allow_reassociation |-> FALSE, tags |-> None, tag_name |-> None,
     update_reverse_dns_record |-> FALSE, allocation_id |-> None,
     domain_name |-> None, dry_run |-> FALSE]

\* module.params.  The options a branch of main does not read keep their
\* defaults.
EIPPresentParams ==
    {[EIPDefaults EXCEPT !.device_id = d, !.public_ip = ip, !.in_vpc = v,
                         !.reuse_existing_ip_allowed = r, !.allow_reassociation = ar,
                         !.tags = t, !.tag_name = tn] :
        d \in {None} \cup {Some(x) : x \in EIPDevices},
        ip \in {None, Some(1)},
        v \in BOOLEAN, r \in BOOLEAN, ar \in BOOLEAN,
        t \in {None, Some({<<"Name", "a">>})},
        tn \in {None, Some("Name")}}

EIPAbsentParams ==
    {[EIPDefaults EXCEPT !.state = "absent", !.device_id = d, !.public_ip = ip, !.in_vpc = v,
                         !.release_on_disassociation = rel] :
        d \in {None} \cup {Some(x) : x \in EIPDevices},
        ip \in {None, Some(1)},
        v \in BOOLEAN, rel \in BOOLEAN}

EIPReverseDnsParams ==
    {[EIPDefaults EXCEPT !.state = st, !.update_reverse_dns_record = TRUE,
                         !.allocation_id = Some(1), !.domain_name = Some("example.com"),
                         !.dry_run = dr] :
        st \in {"present", "absent"}, dr \in BOOLEAN}

EIPParamSet == EIPPresentParams \cup EIPAbsentParams \cup EIPReverseDnsParams

EIPResult(addrs, outcome, changed, calls) ==
    [addrs |-> addrs, outcome |-> outcome, changed |-> changed, calls |-> calls,
     disassociated |-> FALSE, released |-> FALSE]

\* The ids of the addresses in a set, in the order describe_addresses
\* returns them.
EIPSorted(S) ==
    LET RECURSIVE from(_)
        from(n) == IF n > Cardinality(EIPIds) THEN <<>>
                   ELSE IF n \in S THEN <<n>> \o from(n + 1) ELSE from(n + 1)
    IN  from(1)

\* A variant of find_address that takes the first of several matches.
EIPFindFirst(addrs, public_ip, device_id, is_instance) ==
    LET byIp == {n \in EIPIds : addrs[n] # None /\ public_ip = Some(n)}
        byDevice == {n \in EIPIds : addrs[n] # None /\
                        (IF is_instance THEN InstanceId(addrs[n][1])
                         ELSE NetworkInterfaceId(addrs[n][1])) = device_id}
        addresses == EIPSorted(IF public_ip # None THEN byIp ELSE byDevice)
    IN  IF public_ip = None /\ device_id = None THEN [raised |-> FALSE, address |-> None]
        ELSE IF Len(addresses) >= 1 THEN [raised |-> FALSE, address |-> Some(addresses[1])]
        ELSE [raised |-> FALSE, address |-> None]

\* find_address: the address with that public ip, else the address
\* associated with the device; more than one match raises AnsibleEC2Error.
find_address(addrs, public_ip, device_id, is_instance) ==
    LET byIp == {n \in EIPIds : addrs[n] # None /\ public_ip = Some(n)}
        byDevice == {n \in EIPIds : addrs[n] # None /\
                        (IF is_instance THEN InstanceId(addrs[n][1])
                         ELSE NetworkInterfaceId(addrs[n][1])) = device_id}
        addresses == EIPSorted(IF public_ip # None THEN byIp ELSE byDevice)
    IN  IF public_ip = None /\ device_id = None THEN [raised |-> FALSE, address |-> None]
        ELSE IF Len(addresses) > 1 THEN [raised |-> TRUE, address |-> None]
        ELSE IF Len(addresses) = 1 THEN [raised |-> FALSE, address |-> Some(addresses[1])]
        ELSE [raised |-> FALSE, address |-> None]

\* A variant of address_is_associated_with_device that never reports an
\* association.
EIPNeverAssociated(addrs, address, device_id, is_instance) ==
    [raised |-> FALSE, association_id |-> None]

\* address_is_associated_with_device: the AssociationId when the address
\* found is attached to that device.
address_is_associated_with_device(addrs, address, device_id, is_instance) ==
    LET found == find_address(addrs, address, device_id, is_instance)
        a == addrs[found.address[1]][1]
        attached == IF is_instance THEN InstanceId(a) ELSE NetworkInterfaceId(a)
    IN  IF found.raised THEN [raised |-> TRUE, association_id |-> None]
        ELSE IF found.address # None /\ attached = device_id
        THEN [raised |-> FALSE, association_id |-> AssociationId(a)]
        ELSE [raised |-> FALSE, association_id |-> None]

\* generate_tag_dict: the filter on the tag key.
generate_tag_dict(p) == p.tag_name

\* The tail of allocate_address: allocate a new address of the domain with
\* the tags given (not in check mode).
EIPAllocateNew(addrs, check_mode, search_tags, domain, reuse, tags, calls) ==
    LET dom == IF domain = None THEN "standard" ELSE domain[1]
        free == {n \in EIPIds \ EIPInitIds : addrs[n] = None}
        new == CHOOSE n \in free : \A m \in free : n <= m
        tagged == IF tags = None THEN {} ELSE tags[1]
    IN  IF check_mode
        THEN [address |-> None, changed |-> TRUE, addrs |-> addrs, calls |-> calls]
        ELSE [address |-> Some(new), changed |-> TRUE,
              addrs |-> [addrs EXCEPT ![new] = Some(EIPAddress(dom, None, tagged))],
              calls |-> Append(calls, "allocate_address")]

\* A variant of allocate_address that never looks for an address to reuse.
EIPAllocateIgnoringReuse(addrs, check_mode, search_tags, domain, reuse, tags, calls) ==
    EIPAllocateNew(addrs, check_mode, search_tags, domain, reuse, tags, calls)

\* allocate_address: reuse an unassociated address of the domain when that
\* is allowed and one exists, else allocate a new one.
allocate_address(addrs, check_mode, search_tags, domain, reuse, tags, calls) ==
    LET dom == IF domain = None THEN "standard" ELSE domain[1]
        all_addresses == {n \in EIPIds : /\ addrs[n] # None
                                         /\ addrs[n][1].Domain = dom
                                         /\ search_tags # None
                                            => \E kv \in addrs[n][1].Tags : kv[1] = search_tags[1]}
        unassociated == EIPSorted({n \in all_addresses :
                            IF dom = "vpc" THEN AssociationId(addrs[n][1]) = None
                            ELSE InstanceId(addrs[n][1]) = None})
    IN  IF reuse /\ Len(unassociated) > 0
        THEN [address |-> Some(unassociated[1]), changed |-> FALSE, addrs |-> addrs, calls |-> calls]
        ELSE EIPAllocateNew(addrs, check_mode, search_tags, domain, reuse, tags, calls)

\* ec2.associate_address: an address attached to another device is moved
\* only with AllowReassociation; a standard address has no AllocationId to
\* attach to a network interface.
associate_address(addrs, address, device_id, is_instance, allow_reassociation) ==
    LET a == addrs[address][1]
    IN  IF (a.Device # None /\ a.Device # device_id /\ ~allow_reassociation)
           \/ (~is_instance /\ a.Domain # "vpc")
        THEN [raised |-> TRUE, addrs |-> addrs]
        ELSE [raised |-> FALSE,
              addrs |-> [addrs EXCEPT ![address] = Some([a EXCEPT !.Device = device_id])]]

\* ensure_ec2_tags with purge_tags=true: the tags of the resource become the
\* tags given; nothing is done when none are given or they are equal.
ensure_ec2_tags(addrs, address, tags, check_mode, calls) ==
    IF tags = None \/ addrs[address][1].Tags = tags[1]
    THEN [changed |-> FALSE, addrs |-> addrs, calls |-> calls]
    ELSE IF check_mode
    THEN [changed |-> TRUE, addrs |-> addrs, calls |-> calls]
    ELSE [changed |-> TRUE,
          addrs |-> [addrs EXCEPT ![address] = Some([addrs[address][1] EXCEPT !.Tags = tags[1]])],
          calls |-> Append(calls, "create_tags")]

\* The last step of ensure_present: the tags of the address.
EIPEnsureTags(addrs, p, check_mode, address, changed, calls) ==
    IF address = None
    THEN EIPResult(addrs, "exit_json", changed, calls)
    ELSE LET t == ensure_ec2_tags(addrs, address[1], p.tags, check_mode, calls)
         IN  EIPResult(t.addrs, "exit_json", changed \/ t.changed, t.calls)

\* The association step of ensure_present.
EIPAssociate(addrs, p, check_mode, address, is_instance, changed, calls) ==
    LET domain == IF p.in_vpc THEN Some("vpc") ELSE None
        assoc == address_is_associated_with_device(addrs, address, p.device_id, is_instance)
        done == associate_address(addrs, address[1], p.device_id, is_instance, p.allow_reassociation)
    IN  IF p.device_id = None
        THEN EIPEnsureTags(addrs, p, check_mode, address, changed, calls)
        ELSE IF is_instance /\ p.reuse_existing_ip_allowed /\ domain = None
        THEN EIPResult(addrs, "fail_json", FALSE, calls)
        ELSE IF assoc.raised
        THEN EIPResult(addrs, "fail_json", FALSE, calls)
        ELSE IF assoc.association_id # None
        THEN EIPEnsureTags(addrs, p, check_mode, address, changed, calls)
        ELSE IF check_mode
        THEN EIPEnsureTags(addrs, p, check_mode, address, TRUE, calls)
        ELSE IF done.raised
        THEN EIPResult(addrs, "fail_json", FALSE, Append(calls, "associate_address"))
        ELSE EIPEnsureTags(done.addrs, p, check_mode, address, TRUE,
                           Append(calls, "associate_address"))

\* ensure_present.
ensure_present(addrs, p, check_mode, address, is_instance) ==
    LET domain == IF p.in_vpc THEN Some("vpc") ELSE None
        alloc == allocate_address(addrs, check_mode, generate_tag_dict(p), domain,
                                  p.reuse_existing_ip_allowed, p.tags, <<>>)
    IN  IF address = None
        THEN EIPAssociate(alloc.addrs, p, check_mode, alloc.address, is_instance,
                          alloc.changed, alloc.calls)
        ELSE EIPAssociate(addrs, p, check_mode, address, is_instance, FALSE, <<>>)

\* ec2.release_address: an address still associated is in use.
release_address(addrs, address) ==
    IF AssociationId(addrs[address][1]) # None
    THEN [raised |-> TRUE, addrs |-> addrs]
    ELSE [raised |-> FALSE, addrs |-> [addrs EXCEPT ![address] = None]]

\* A variant of ensure_absent that releases every address found.
EIPAbsentAlwaysRelease(addrs, p, check_mode, address, is_instance) ==
    IF address = None \/ check_mode
    THEN [EIPResult(addrs, "exit_json", address # None, <<>>)
          EXCEPT !.released = address # None]
    ELSE [EIPResult([addrs EXCEPT ![address[1]] = None], "exit_json", TRUE, <<"release_address">>)
          EXCEPT !.released = TRUE]

\* ensure_absent.
ensure_absent(addrs, p, check_mode, address, is_instance) ==
    LET assoc == IF address # None /\ p.device_id # None
                 THEN address_is_associated_with_device(addrs, address, p.device_id, is_instance)
                 ELSE [raised |-> FALSE, association_id |-> None]
        disassociated == assoc.association_id # None
        addrs1 == IF disassociated /\ ~check_mode
                  THEN [addrs EXCEPT ![address[1]] = Some([addrs[address[1]][1] EXCEPT !.Device = None])]
                  ELSE addrs
        calls1 == IF disassociated /\ ~check_mode THEN <<"disassociate_address">> ELSE <<>>
        release == address # None /\
                   (p.device_id = None \/ (disassociated /\ p.release_on_disassociation))
        rel == release_address(addrs1, address[1])
    IN  IF assoc.raised
        THEN EIPResult(addrs, "fail_json", FALSE, <<>>)
        ELSE IF release /\ ~check_mode
        THEN IF rel.raised
             THEN EIPResult(addrs1, "fail_json", FALSE, Append(calls1, "release_address"))
             ELSE [EIPResult(rel.addrs, "exit_json", TRUE, Append(calls1, "release_address"))
                   EXCEPT !.disassociated = disassociated, !.released = TRUE]
        ELSE [EIPResult(addrs1, "exit_json", disassociated \/ release, calls1)
              EXCEPT !.disassociated = disassociated, !.released = release]

\* update_reverse_dns_record_of_eip: the raw client call, with DryRun taken
\* from the dry_run option.  The service answers DryRun=True with the
\* DryRunOperation error and an unknown allocation id with a ClientError;
\* neither is an AnsibleEC2Error, so neither is caught.
update_reverse_dns_record_of_eip(addrs, p, check_mode) ==
    LET id == p.allocation_id[1]
        calls == <<"modify_address_attribute">>
    IN  IF p.dry_run \/ addrs[id] = None
        THEN EIPResult(addrs, "exception", FALSE, calls)
        ELSE EIPResult([addrs EXCEPT ![id] = Some([addrs[id][1] EXCEPT !.PtrRecord = p.domain_name])],
                       "exit_json", TRUE, calls)

\* check_is_instance.
check_is_instance(p) ==
    IF p.device_id = None THEN [failed |-> FALSE, is_instance |-> FALSE]
    ELSE IF IsInstanceId(p.device_id[1]) THEN [failed |-> FALSE, is_instance |-> TRUE]
    ELSE [failed |-> ~p.in_vpc, is_instance |-> FALSE]

\* main() of the module.
EIPMain(addrs, p, check_mode) ==
    LET inst == check_is_instance(p)
        found == find_address(addrs, p.public_ip, p.device_id, inst.is_instance)
    IN  IF inst.failed
        THEN EIPResult(addrs, "fail_json", FALSE, <<>>)
        ELSE IF p.update_reverse_dns_record
        THEN update_reverse_dns_record_of_eip(addrs, p, check_mode)
        ELSE IF found.raised
        THEN EIPResult(addrs, "fail_json", FALSE, <<>>)
        ELSE IF p.state = "present"
        THEN ensure_present(addrs, p, check_mode, found.address, inst.is_instance)
        ELSE ensure_absent(addrs, p, check_mode, found.address, inst.is_instance)

EIPSummary(check_mode, r) ==
    [check_mode |-> check_mode, outcome |-> r.outcome, changed |-> r.changed,
     calls |-> r.calls, disassociated |-> r.disassociated, released |-> r.released]

EIPNoRun ==
    [check_mode |-> FALSE, outcome |-> "none", changed |-> FALSE, calls |-> <<>>,
     disassociated |-> FALSE, released |-> FALSE]

\* The addresses of the account before the first run.  A standard address
\* can only be attached to an instance.
EIPInitAddresses ==
    {EIPAddress(dom, dev, t) :
        dom \in {"vpc", "standard"},
        dev \in {None} \cup {Some(x) : x \in EIPDevices},
        t \in EIPTagDicts}

EIPInit ==
    /\ eipAddrs \in [EIPIds -> {None} \cup {Some(a) : a \in EIPInitAddresses}]
    /\ \A n \in EIPIds :
          IF eipAddrs[n] = None THEN TRUE
          ELSE /\ n \in EIPInitIds
               /\ eipAddrs[n][1].Domain = "standard" => NetworkInterfaceId(eipAddrs[n][1]) = None
    /\ eipBefore = eipAddrs
    /\ eipParams = None
    /\ eipRuns = 0
    /\ eipLast = EIPNoRun
    /\ eipPrev = EIPNoRun

\* One run of the module; successive runs use identical parameters.
EIPRun(p, check_mode) ==
    /\ eipRuns < MaxRuns
    /\ eipParams = None \/ eipParams = Some(p)
    /\ LET r == EIPMain(eipAddrs, p, check_mode)
       IN  /\ eipAddrs' = r.addrs
           /\ eipLast' = EIPSummary(check_mode, r)
    /\ eipBefore' = eipAddrs
    /\ eipParams' = Some(p)
    /\ eipRuns' = eipRuns + 1
    /\ eipPrev' = eipLast

EIPNext == \E p \in EIPParamSet, check_mode \in BOOLEAN : EIPRun(p, check_mode)

(***************************************************************************)
(* aws_secret lookup                                                       *)
(***************************************************************************)
VARIABLES secStore, secLast, secRuns

secVars == <<secStore, secLast, secRuns>>

SecNames == {"a", "b"}

\* What client.get_secret_value answers for a secret: its value, a
\* ResourceNotFoundException, an AccessDeniedException or another ClientError.
SecStatuses == {"found", "missing", "denied", "error"}

SecValue == [a |-> "va", b |-> "vb"]

\* on_missing / on_denied as the caller passes them; None when left out.
SecPolicies == {None, Some("error"), Some("skip"), Some("warn")}

SecTerms == {<<t>> : t \in SecNames} \cup {<<t, u>> : t \in SecNames, u \in SecNames}

SecArgSet ==
    [terms : SecTerms, bypath : BOOLEAN, join : BOOLEAN,
     on_missing : SecPolicies, on_denied : SecPolicies]

SecResult(outcome, value, warnings, calls) ==
    [outcome |-> outcome, value |-> value, warnings |-> warnings, calls |-> calls]

\* A variant of get_secret_value that returns nothing on a ClientError.
SecGetSecretValueLenient(store, term, on_missing, on_denied) ==
    IF store[term] = "found"
    THEN SecResult("return", Some(SecValue[term]), <<>>, <<term>>)
    ELSE SecResult("return", None, <<>>, <<term>>)

\* LookupModule.get_secret_value: the secret's value; every ClientError is
\* re-raised as AnsibleError by the first handler, before on_missing and
\* on_denied are looked at.
get_secret_value(store, term, on_missing, on_denied) ==
    IF store[term] = "found"
    THEN SecResult("return", Some(SecValue[term]), <<>>, <<term>>)
    ELSE SecResult("AnsibleError", None, <<>>, <<term>>)

\* The loop of run over terms with bypath=false: the values found, in order.
RECURSIVE SecCollect(_, _, _, _, _, _)
SecCollect(store, terms, i, a, secrets, calls) ==
    IF i > Len(terms)
    THEN SecResult("return", secrets, <<>>, calls)
    ELSE LET r == get_secret_value(store, terms[i], a.on_missing, a.on_denied)
         IN  IF r.outcome # "return"
             THEN SecResult(r.outcome, None, r.warnings, calls \o r.calls)
             ELSE SecCollect(store, terms, i + 1, a,
                             IF r.value = None THEN secrets ELSE Append(secrets, r.value[1]),
                             calls \o r.calls)

\* The loop of run over terms with bypath=true: list_secrets names the secrets
\* that exist under the term, and each is fetched.
RECURSIVE SecByPath(_, _, _, _, _, _)
SecByPath(store, terms, i, a, secrets, calls) ==
    IF i > Len(terms)
    THEN SecResult("return", <<secrets>>, <<>>, calls)
    ELSE IF store[terms[i]] = "missing"
    THEN SecByPath(store, terms, i + 1, a, secrets, calls)
    ELSE LET r == get_secret_value(store, terms[i], a.on_missing, a.on_denied)
         IN  IF r.outcome # "return"
             THEN SecResult(r.outcome, None, r.warnings, calls \o r.calls)
             ELSE SecByPath(store, terms, i + 1, a,
                            secrets \cup {<<terms[i], r.value>>}, calls \o r.calls)

\* run from the credentials on: the secrets of the terms, joined into one
\* entry when join is set.
SecRunBody(store, a) ==
    LET r == SecCollect(store, a.terms, 1, a, <<>>, <<>>)
    IN  IF a.bypath THEN SecByPath(store, a.terms, 1, a, {}, <<>>)
        ELSE IF r.outcome = "return" /\ a.join
        THEN SecResult("return", <<r.value>>, r.warnings, r.calls)
        ELSE r

\* The names bound in the scope of run: its arguments.  kwargs is not one of
\* them, nor a global of the plugin.
SecRunScope ==
    {"self", "terms", "variables", "boto_profile", "aws_profile", "aws_secret_key",
     "aws_access_key", "aws_security_token", "region", "bypath", "join",
     "version_stage", "version_id", "on_missing", "on_denied"}

\* LookupModule.run: reading on_missing out of kwargs raises NameError before
\* any client is built.
run(store, a) ==
    IF "kwargs" \notin SecRunScope
    THEN SecResult("NameError", None, <<>>, <<>>)
    ELSE SecRunBody(store, a)

SecSummary(op, a, r) ==
    [op |-> op, terms |-> a.terms, bypath |-> a.bypath, join |-> a.join,
     on_missing |-> a.on_missing, on_denied |-> a.on_denied,
     outcome |-> r.outcome, value |-> r.value, warnings |-> r.warnings, calls |-> r.calls]

SecNoRun ==
    [op |-> "none", terms |-> <<>>, bypath |-> FALSE, join |-> FALSE,
     on_missing |-> None, on_denied |-> None,
     outcome |-> "none", value |-> None, warnings |-> <<>>, calls |-> <<>>]

SecInit ==
    /\ secStore \in [SecNames -> SecStatuses]
    /\ secLast = SecNoRun
    /\ secRuns = 0

\* One lookup through the plugin's entry point.
SecLookup(a) ==
    /\ secRuns < MaxRuns
    /\ secLast' = SecSummary("run", a, run(secStore, a))
    /\ secRuns' = secRuns + 1
    /\ UNCHANGED secStore

\* One direct call of the method that fetches a single secret.
SecGetSecretValue(a) ==
    /\ secRuns < MaxRuns
    /\ Len(a.terms) = 1 /\ ~a.bypath /\ ~a.join
    /\ secLast' = SecSummary("get_secret_value", a,
                             get_secret_value(secStore, a.terms[1], a.on_missing, a.on_denied))
    /\ secRuns' = secRuns + 1
    /\ UNCHANGED secStore

SecNext ==
    \/ \E a \in SecArgSet : SecLookup(a)
    \/ \E a \in SecArgSet : SecGetSecretValue(a)

(***************************************************************************)
(* ec2_spot_instance_info                                                  *)
(***************************************************************************)
VARIABLES spotRequests, spotLast, spotRuns

spotVars == <<spotRequests, spotLast, spotRuns>>

SpotIdOrder == <<"sir-1", "sir-2">>
SpotIds == {SpotIdOrder[i] : i \in 1..Len(SpotIdOrder)}
SpotStates == {"open", "active"}

\* module.params: filters is a list of {name, values} dicts,
\* spot_instance_request_ids a list of ids; both default to the empty list.
SpotParamSet ==
    [filters : {<<>>} \cup {<<[name |-> "state", values |-> {s}]>> : s \in SpotStates},
     spot_instance_request_ids : {<<>>, <<"sir-1">>, <<"sir-1", "sir-2">>}]

\* snake_dict_to_camel_dict(filters, capitalize_first=True).
SpotCamelFilters(filters) ==
    [i \in 1..Len(filters) |-> [Name |-> filters[i].name, Values |-> filters[i].values]]

\* camel_dict_to_snake_dict of one SpotInstanceRequests entry.
SpotSnake(item) ==
    [spot_instance_request_id |-> item.SpotInstanceRequestId, state |-> item.State]

\* The paginated describe_spot_instance_requests call; a key of params that
\* was not set is None.  The requests with the ids given (all when none is
\* given) that pass every filter; an unknown id is answered with a
\* ClientError.
SpotDescribe(requests, params) ==
    LET given == params.SpotInstanceRequestIds
        ids == IF given = None THEN SpotIds ELSE {given[1][i] : i \in 1..Len(given[1])}
        filters == IF params.Filters = None THEN <<>> ELSE params.Filters[1]
        hit(id) == /\ id \in ids
                   /\ requests[id] # None
                   /\ \A i \in 1..Len(filters) :
                         filters[i].Name = "state" => requests[id][1] \in filters[i].Values
        found == SelectSeq(SpotIdOrder, hit)
    IN  IF given # None /\ \E id \in ids : requests[id] = None
        THEN [raised |-> TRUE, SpotInstanceRequests |-> <<>>]
        ELSE [raised |-> FALSE,
              SpotInstanceRequests |->
                  [i \in 1..Len(found) |->
                      [SpotInstanceRequestId |-> found[i], State |-> requests[found[i]][1]]]]

SpotResult(outcome, changed, spot_request, calls) ==
    [outcome |-> outcome, changed |-> changed, spot_request |-> spot_request, calls |-> calls]

\* describe_spot_instance_requests(connection, module), all of main after
\* the client is built.
describe_spot_instance_requests(requests, p, check_mode, fault) ==
    LET changed == TRUE
        params == [Filters |-> IF Len(p.filters) > 0
                               THEN Some(SpotCamelFilters(p.filters)) ELSE None,
                   SpotInstanceRequestIds |-> IF Len(p.spot_instance_request_ids) > 0
                                              THEN Some(p.spot_instance_request_ids) ELSE None]
        response == SpotDescribe(requests, params)
        calls == <<"describe_spot_instance_requests">>
    IN  IF check_mode
        THEN SpotResult("exit_json", changed, None, <<>>)
        ELSE IF fault \/ response.raised
        THEN SpotResult("fail_json", FALSE, None, calls)
        ELSE SpotResult("exit_json", changed,
                        Some([i \in 1..Len(response.SpotInstanceRequests) |->
                                 SpotSnake(response.SpotInstanceRequests[i])]),
                        calls)

SpotSummary(p, check_mode, r) ==
    [params |-> Some(p), check_mode |-> check_mode, outcome |-> r.outcome,
     changed |-> r.changed, spot_request |-> r.spot_request, calls |-> r.calls]

SpotNoRun ==
    [params |-> None, check_mode |-> FALSE, outcome |-> "none", changed |-> FALSE,
     spot_request |-> None, calls |-> <<>>]

SpotInit ==
    /\ spotRequests \in [SpotIds -> {None} \cup {Some(s) : s \in SpotStates}]
    /\ spotLast = SpotNoRun
    /\ spotRuns = 0

\* One run of the module: main.
SpotRun(p, check_mode, fault) ==
    /\ spotRuns < MaxRuns
    /\ spotLast' = SpotSummary(p, check_mode,
                               describe_spot_instance_requests(spotRequests, p, check_mode, fault))
    /\ spotRuns' = spotRuns + 1
    /\ UNCHANGED spotRequests

SpotNext ==
    \E p \in SpotParamSet, check_mode \in BOOLEAN, fault \in BOOLEAN : SpotRun(p, check_mode, fault)

(***************************************************************************)
(* route53_ksk                                                             *)
(***************************************************************************)
VARIABLES kskKey, kskBefore, kskLast, kskRuns

kskVars == <<kskKey, kskBefore, kskLast, kskRuns>>

KSKStatuses == {"ACTIVE", "INACTIVE"}

\* module.params; hosted_zone_id, name, caller_reference and
\* key_management_service_arn are the same in every run.
KSKParamSet == [state : {"present", "absent"}, status : KSKStatuses, wait : BOOLEAN]

\* Waits of one run: create and delete each wait at most twice.
KSKMaxWaits == 2

\* The wait of a run, counted from 1, at which the waiter times out; 0 when
\* none does.
KSKTimeouts == 0..KSKMaxWaits

KSKResult(key, outcome, changed, result, calls) ==
    [key |-> key, outcome |-> outcome, changed |-> changed, result |-> result, calls |-> calls]

\* wait: the waiter on a change; a WaiterError ends the run in fail_json_aws.
wait(calls, timeout) ==
    LET calls1 == Append(calls, "wait")
    IN  [failed |-> Count(calls1, "wait") = timeout, calls |-> calls1]

\* The end of create and delete when wait is set: wait on the change and read
\* it back with get_change.
KSKFinish(key, p, changed, result, calls, timeout) ==
    LET w == wait(calls, timeout)
    IN  IF ~p.wait THEN KSKResult(key, "exit_json", changed, result, calls)
        ELSE IF w.failed THEN KSKResult(key, "fail_json", FALSE, None, w.calls)
        ELSE KSKResult(key, "exit_json", changed, result, Append(w.calls, "get_change"))

\* A variant of create that activates or deactivates an existing KSK without
\* waiting on the change that create_key_signing_key returned.
KSKCreateWithoutWait(key, p, timeout) ==
    LET calls == <<"create_key_signing_key">>
        op == IF p.status = "ACTIVE" THEN "activate_key_signing_key"
              ELSE "deactivate_key_signing_key"
    IN  IF key = None
        THEN KSKResult(Some(p.status), "exit_json", TRUE, Some(p.status), calls)
        ELSE IF key[1] = p.status
        THEN KSKResult(key, "exit_json", FALSE, key, calls)
        ELSE KSKFinish(Some(p.status), p, TRUE, Some(p.status), Append(calls, op), timeout)

\* create: create_key_signing_key answers a request for an existing name
\* and KMS key with the existing KSK and its earlier SubmittedAt; the KSK is
\* then activated or deactivated when its status is not the one asked for.
create(key, p, timeout) ==
    LET calls == <<"create_key_signing_key">>
        w == wait(calls, timeout)
        op == IF p.status = "ACTIVE" THEN "activate_key_signing_key"
              ELSE "deactivate_key_signing_key"
    IN  IF key = None
        THEN KSKResult(Some(p.status), "exit_json", TRUE, Some(p.status), calls)
        ELSE IF key[1] = p.status
        THEN KSKResult(key, "exit_json", FALSE, key, calls)
        ELSE IF w.failed
        THEN KSKResult(key, "fail_json", FALSE, None, w.calls)
        ELSE KSKFinish(Some(p.status), p, TRUE, Some(p.status), Append(w.calls, op), timeout)

\* A variant of delete that goes on to delete_key_signing_key after
\* deactivate_key_signing_key has answered NoSuchKeySigningKey, and reports a
\* change.
KSKDeleteMissingChanged(key, p, timeout) ==
    LET deactivating == p.status = "INACTIVE"
        calls1 == IF deactivating THEN <<"deactivate_key_signing_key">> ELSE <<>>
    IN  KSKResult(None, "exit_json", TRUE, None, Append(calls1, "delete_key_signing_key"))

\* delete: the KSK is deactivated first when status is INACTIVE, then
\* deleted.  The service refuses to delete an ACTIVE key with a ClientError
\* that nothing catches; NoSuchKeySigningKey ends the run unchanged.
delete(key, p, timeout) ==
    LET deactivating == p.status = "INACTIVE"
        calls1 == IF deactivating THEN <<"deactivate_key_signing_key">> ELSE <<>>
        w == wait(calls1, timeout)
        calls2 == IF deactivating THEN w.calls ELSE calls1
        key1 == IF deactivating THEN Some("INACTIVE") ELSE key
        calls3 == Append(calls2, "delete_key_signing_key")
    IN  IF key = None
        THEN KSKResult(key, "exit_json", FALSE, None,
                       IF deactivating THEN calls1 ELSE calls3)
        ELSE IF deactivating /\ w.failed
        THEN KSKResult(key1, "fail_json", FALSE, None, w.calls)
        ELSE IF key1 = Some("ACTIVE")
        THEN KSKResult(key1, "exception", FALSE, None, calls3)
        ELSE KSKFinish(None, p, TRUE, Some("DELETING"), calls3, timeout)

\* main() of the module.
KSKMain(key, p, timeout) ==
    IF p.state = "present" THEN create(key, p, timeout) ELSE delete(key, p, timeout)

KSKSummary(p, timeout, r) ==
    [params |-> Some(p), timeout |-> timeout, outcome |-> r.outcome, changed |-> r.changed,
     result |-> r.result, calls |-> r.calls]

KSKNoRun ==
    [params |-> None, timeout |-> 0, outcome |-> "none", changed |-> FALSE,
     result |-> None, calls |-> <<>>]

KSKInit ==
    /\ kskKey \in {None} \cup {Some(s) : s \in KSKStatuses}
    /\ kskBefore = kskKey
    /\ kskLast = KSKNoRun
    /\ kskRuns = 0

\* One run of the module.
KSKRun(p, timeout) ==
    /\ kskRuns < MaxRuns
    /\ LET r == KSKMain(kskKey, p, timeout)
       IN  /\ kskKey' = r.key
           /\ kskLast' = KSKSummary(p, timeout, r)
    /\ kskBefore' = kskKey
    /\ kskRuns' = kskRuns + 1

KSKNext == \E p \in KSKParamSet, timeout \in KSKTimeouts : KSKRun(p, timeout)

(***************************************************************************)
(* s3_bucket_info                                                          *)
(***************************************************************************)
VARIABLES s3Buckets, s3Last, s3Runs

s3Vars == <<s3Buckets, s3Last, s3Runs>>

S3NameOrder == <<"b1", "b2">>
S3Names == {S3NameOrder[i] : i \in 1..Len(S3NameOrder)}

\* The facts of the argument spec that are modelled: the two with a getter
\* of their own and one fetched by get_bucket_property.
S3FactOrder == <<"bucket_acl", "bucket_location", "bucket_tagging">>
S3Facts == {S3FactOrder[i] : i \in 1..Len(S3FactOrder)}

\* A bucket: the LocationConstraint the service reports (None for
\* us-east-1) and its tags.
S3BucketSet == [LocationConstraint : {None, Some("eu-west-1")}, Tags : {{<<"env", "dev">>}}]

\* module.params.  name and name_filter are mutually exclusive; bucket_facts
\* is None or the dict of all suboptions.
S3ParamSet ==
    {p \in [name : {"", "b1"}, name_filter : {"", "b"},
            bucket_facts : {None} \cup {Some(d) : d \in [S3Facts -> BOOLEAN]},
            transform_location : BOOLEAN] :
        p.name = "" \/ p.name_filter = ""}

\* What the service does to the calls of one run: whether list_buckets
\* fails, and the <<bucket, fact>> whose get call is answered with a
\* ClientError that is not retried (None when none is).
S3FaultSet ==
    [list : BOOLEAN, get : {None} \cup {Some(<<b, k>>) : b \in S3Names, k \in S3Facts}]

\* name_filter in bucket["name"]: every modelled name contains "b".
S3Contains(filter, name) == filter = "b"

\* get_bucket_list: the buckets named name, or containing name_filter, or
\* all of them.
get_bucket_list(buckets, name, name_filter) ==
    LET hit(n) == /\ buckets[n] # None
                  /\ IF name_filter # "" THEN S3Contains(name_filter, n)
                     ELSE IF name # "" THEN name = n
                     ELSE TRUE
    IN  SelectSeq(S3NameOrder, hit)

\* The truth value of a dict or None: a dict is true when it is not empty.
S3Truthy(d) == d # None /\ DOMAIN d[1] # {}

\* A dict returned as a fact is a set of <<key, value>> pairs; d[k]:
S3Get(d, k) == (CHOOSE kv \in d : kv[1] = k)[2]

\* get_bucket_location: the answer of the service, its null
\* LocationConstraint replaced when transform_location is true.
get_bucket_location(bucket, transform_location) ==
    IF S3Truthy(transform_location) /\ bucket.LocationConstraint = None
    THEN {<<"LocationConstraint", Some("us-east-1")>>}
    ELSE {<<"LocationConstraint", bucket.LocationConstraint>>}

\* get_bucket_tagging: the TagSet as a dict.
get_bucket_tagging(bucket) == bucket.Tags

\* get_bucket_property: the answer of get_<key>.
get_bucket_property(bucket, key) == {<<"property", key>>}

\* One fact of get_bucket_details: {} when the call raises ClientError.
S3Fact(bucket, name, key, transform_location, f) ==
    IF f.get = Some(<<name, key>>) THEN {}
    ELSE IF key = "bucket_location" THEN get_bucket_location(bucket, transform_location)
    ELSE IF key = "bucket_tagging" THEN get_bucket_tagging(bucket)
    ELSE get_bucket_property(bucket, key)

\* A variant of get_bucket_details that leaves out a fact whose call failed.
S3DetailsDropFailed(bucket, name, requested_facts, transform_location, f) ==
    LET keys == {k \in S3Facts : requested_facts[1][k] /\ f.get # Some(<<name, k>>)}
    IN  [k \in keys |-> S3Fact(bucket, name, k, transform_location, f)]

\* get_bucket_details: every requested fact whose value is true.
get_bucket_details(bucket, name, requested_facts, transform_location, f) ==
    LET keys == {k \in S3Facts : requested_facts[1][k]}
    IN  [k \in keys |-> S3Fact(bucket, name, k, transform_location, f)]

\* The get calls of get_bucket_details, in the order of the facts.
S3DetailCalls(name, requested_facts) ==
    LET asked(k) == requested_facts[1][k]
        keys == SelectSeq(S3FactOrder, asked)
    IN  [i \in 1..Len(keys) |-> <<"get_" \o keys[i], name>>]

\* get_buckets_facts: the details of every bucket of the list.
RECURSIVE get_buckets_facts(_, _, _, _, _, _)
get_buckets_facts(buckets, list, i, requested_facts, transform_location, f) ==
    IF i > Len(list) THEN [buckets |-> <<>>, calls |-> <<>>]
    ELSE LET rest == get_buckets_facts(buckets, list, i + 1, requested_facts,
                                       transform_location, f)
             facts == get_bucket_details(buckets[list[i]][1], list[i], requested_facts,
                                         transform_location, f)
         IN  [buckets |-> <<[name |-> list[i], facts |-> Some(facts)]>> \o rest.buckets,
              calls |-> S3DetailCalls(list[i], requested_facts) \o rest.calls]

S3Result(outcome, buckets, calls) ==
    [outcome |-> outcome, buckets |-> buckets, calls |-> calls]

\* main() of the module.
S3Main(buckets, p, f) ==
    LET requested_facts == p.bucket_facts
        transform_location == p.bucket_facts
        bucket_list == get_bucket_list(buckets, p.name, p.name_filter)
        full == get_buckets_facts(buckets, bucket_list, 1, requested_facts,
                                  transform_location, f)
        calls == << <<"list_buckets", "">> >>
    IN  IF f.list THEN S3Result("fail_json", <<>>, calls)
        ELSE IF p.bucket_facts # None
        THEN S3Result("exit_json", full.buckets, calls \o full.calls)
        ELSE S3Result("exit_json",
                      [i \in 1..Len(bucket_list) |-> [name |-> bucket_list[i], facts |-> None]],
                      calls)

S3Summary(p, f, r) ==
    [params |-> Some(p), faults |-> f, outcome |-> r.outcome, buckets |-> r.buckets,
     calls |-> r.calls]

S3NoRun ==
    [params |-> None, faults |-> [list |-> FALSE, get |-> None], outcome |-> "none",
     buckets |-> <<>>, calls |-> <<>>]

S3Init ==
    /\ s3Buckets \in [S3Names -> {None} \cup {Some(b) : b \in S3BucketSet}]
    /\ s3Last = S3NoRun
    /\ s3Runs = 0

\* One run of the module.
S3Run(p, f) ==
    /\ s3Runs < MaxRuns
    /\ s3Last' = S3Summary(p, f, S3Main(s3Buckets, p, f))
    /\ s3Runs' = s3Runs + 1
    /\ UNCHANGED s3Buckets

S3Next == \E p \in S3ParamSet, f \in S3FaultSet : S3Run(p, f)

(***************************************************************************)
(* module_utils/backup.py: looking up a backup plan by name.  The service  *)
(* holds the plans as a chain of result pages; one call of                 *)
(* get_plan_details is one step.                                           *)
(***************************************************************************)
VARIABLES bkPages, bkLast, bkRuns

bkVars == <<bkPages, bkLast, bkRuns>>

\* The longest chain of result pages.
MaxPages == 3

\* The plans of the account: two of them carry the same name.
BkPlans ==
    { [BackupPlanName |-> "daily",  BackupPlanId |-> "p1"],
      [BackupPlanName |-> "daily",  BackupPlanId |-> "p2"],
      [BackupPlanName |-> "weekly", BackupPlanId |-> "p3"] }

BkPlan(id) == CHOOSE pl \in BkPlans : pl.BackupPlanId = id

\* The BackupPlansList of one page.
BkPageSet ==
    { <<>>,
      <<BkPlan("p3")>>,
      <<BkPlan("p1")>>,
      <<BkPlan("p3"), BkPlan("p2"), BkPlan("p1")>> }

BkChains == UNION { [1..n -> BkPageSet] : n \in 1..MaxPages }

BkNames == {"daily", "weekly", "monthly"}

BkArn(id) == "arn:" \o id

\* module.params: the resource key is absent (None) or holds an ARN.
BkParamSet == [backup_plan_names : {<<n>> : n \in BkNames},
               resource : {None, Some(BkArn("p1"))}]

\* The call of the service that is answered with an error, if any.
BkFaultSet == {"none", "get_backup_plan", "list_tags"}

\* client.list_backup_plans: without a token the first page, with a token
\* the page the token stands for; every page but the last carries the token
\* of the page after it.
BkListBackupPlans(pages, token) ==
    LET i == IF token = None THEN 1 ELSE token[1]
    IN  [BackupPlansList |-> pages[i],
         NextToken |-> IF i < Len(pages) THEN Some(i + 1) ELSE None]

\* for backup_plan in entries: the id of the first entry of that name.
BkFirstMatch(entries, backup_plan_name) ==
    LET hits == {j \in 1..Len(entries) : entries[j].BackupPlanName = backup_plan_name}
    IN  IF hits = {} THEN None
        ELSE Some(entries[CHOOSE j \in hits : \A k \in hits : j <= k].BackupPlanId)

\* The while loop of _list_backup_plans.
RECURSIVE BkWhile(_, _, _, _, _, _)
BkWhile(pages, backup_plan_name, response, next_token, first_iteration, calls) ==
    IF next_token = None
    THEN [id |-> None, calls |-> calls]
    ELSE LET response2 == IF first_iteration
                          THEN BkListBackupPlans(pages, next_token)
                          ELSE response
             calls2 == IF first_iteration
                       THEN Append(calls, <<"list_backup_plans", next_token>>)
                       ELSE calls
             hit == BkFirstMatch(response2.BackupPlansList, backup_plan_name)
         IN  IF hit # None
             THEN [id |-> hit, calls |-> calls2]
             ELSE BkWhile(pages, backup_plan_name, response2, response2.NextToken, TRUE, calls2)

\* A variant of the lookup that asks for the first page again inside the loop.
BkListRequestingFirstPageTwice(pages, backup_plan_name) ==
    LET response == BkListBackupPlans(pages, None)
        calls == <<<<"list_backup_plans", None>>>>
        hit == BkFirstMatch(response.BackupPlansList, backup_plan_name)
    IN  IF response.NextToken = None
        THEN [id |-> hit, calls |-> calls]
        ELSE LET again == Append(calls, <<"list_backup_plans", None>>)
             IN  IF hit # None
                 THEN [id |-> hit, calls |-> again]
                 ELSE BkWhile(pages, backup_plan_name, response, response.NextToken, TRUE, again)

\* _list_backup_plans: the id found, or None, and the calls made.
_list_backup_plans(pages, backup_plan_name) ==
    LET response == BkListBackupPlans(pages, None)
        next_token == response.NextToken
        calls == <<<<"list_backup_plans", None>>>>
        hit == BkFirstMatch(response.BackupPlansList, backup_plan_name)
    IN  IF next_token = None
        THEN [id |-> hit, calls |-> calls]
        ELSE BkWhile(pages, backup_plan_name, response, next_token, FALSE, calls)

\* client.get_backup_plan.
BkGetBackupPlan(id) ==
    [BackupPlanId |-> id,
     BackupPlanArn |-> BkArn(id),
     BackupPlan |-> [BackupPlanName |-> BkPlan(id).BackupPlanName]]

\* get_backup_resource_tags: list_tags on module.params["resource"].
get_backup_resource_tags(params) == {<<"env", "dev">>}

\* get_plan_details: the outcome, the list returned, module.params at the
\* return and the calls made.
get_plan_details(pages, params, backup_plan_name, f) ==
    LET found == _list_backup_plans(pages, backup_plan_name)
    IN  IF found.id = None
        THEN [outcome |-> "return", result |-> <<>>, params |-> params,
              calls |-> found.calls]
        ELSE LET backup_plan_id == found.id[1]
                 calls1 == Append(found.calls, <<"get_backup_plan", Some(backup_plan_id)>>)
                 result_ == BkGetBackupPlan(backup_plan_id)
                 params2 == [params EXCEPT !.resource = Some(result_.BackupPlanArn)]
                 calls2 == Append(calls1, <<"list_tags", params2.resource>>)
             IN  IF f = "get_backup_plan"
                 THEN [outcome |-> "fail_json", result |-> <<>>, params |-> params,
                       calls |-> calls1]
                 ELSE IF f = "list_tags"
                 THEN [outcome |-> "fail_json", result |-> <<>>, params |-> params2,
                       calls |-> calls2]
                 ELSE [outcome |-> "return",
                       result |-> << [BackupPlanId |-> result_.BackupPlanId,
                                      BackupPlanArn |-> result_.BackupPlanArn,
                                      BackupPlan |-> result_.BackupPlan,
                                      tags |-> get_backup_resource_tags(params2),
                                      BackupPlanName |-> result_.BackupPlan.BackupPlanName] >>,
                       params |-> params2,
                       calls |-> calls2]

BkSummary(p, f, r) ==
    [entry |-> Some(p), faults |-> f, outcome |-> r.outcome, result |-> r.result,
     params |-> Some(r.params), calls |-> r.calls]

BkNoRun ==
    [entry |-> None, faults |-> "none", outcome |-> "none", result |-> <<>>,
     params |-> None, calls |-> <<>>]

BkInit ==
    /\ bkPages \in BkChains
    /\ bkLast = BkNoRun
    /\ bkRuns = 0

\* One call of get_plan_details for the name the parameters give.
BkRun(p, f) ==
    /\ bkRuns < MaxRuns
    /\ bkLast' = BkSummary(p, f, get_plan_details(bkPages, p, p.backup_plan_names[1], f))
    /\ bkRuns' = bkRuns + 1
    /\ UNCHANGED bkPages

BkNext == \E p \in BkParamSet, f \in BkFaultSet : BkRun(p, f)

(***************************************************************************)
(* ec2_vpc_net_info: one run describes the VPCs of the account and, for    *)
(* each of them, its ClassicLink settings and its two DNS attributes.      *)
(***************************************************************************)
VARIABLES vpcVpcs, vpcLast, vpcRuns

vpcVars == <<vpcVpcs, vpcLast, vpcRuns>>

\* The VPCs of the account, in the order describe_vpcs lists them.
VpcOrder == <<"vpc-1", "vpc-2">>

VpcIds == {VpcOrder[i] : i \in 1..Len(VpcOrder)}

VpcSet == [ClassicLinkEnabled : BOOLEAN, ClassicLinkDnsSupported : BOOLEAN,
           EnableDnsSupport : {TRUE}, EnableDnsHostnames : {FALSE}]

VpcParamSet == [vpc_ids : {<<>>, <<"vpc-1">>}]

VpcClassicLinkCalls == {"describe_vpc_classic_link", "describe_vpc_classic_link_dns_support"}

VpcAttributes == {"enableDnsSupport", "enableDnsHostnames"}

\* The errors of one run: describe_vpcs fails; the region answers
\* UnsupportedOperation to some of the ClassicLink calls; one call on one
\* VPC is answered with InvalidVpcID.NotFound or with another error.
VpcFaultSet ==
    [describe_vpcs : BOOLEAN,
     unsupported : SUBSET VpcClassicLinkCalls,
     error : {None} \cup {Some(<<v, c, code>>) :
                             v \in VpcIds,
                             c \in VpcClassicLinkCalls \cup VpcAttributes,
                             code \in {"InvalidVpcID.NotFound", "AccessDenied"}}]

\* The error code with which a call on a VPC is answered, "none" for none.
VpcError(f, vpc, call) ==
    IF call \in f.unsupported THEN "UnsupportedOperation"
    ELSE IF f.error # None /\ f.error[1][1] = vpc /\ f.error[1][2] = call
    THEN f.error[1][3]
    ELSE "none"

\* describe_classic_links: the response (its list of Vpcs) or None, whether
\* a warning was issued and whether the run ended in fail_json_aws.
describe_classic_links(vpcs, vpc, attribute, f) ==
    LET call == IF attribute = "ClassicLinkEnabled"
                THEN "describe_vpc_classic_link"
                ELSE "describe_vpc_classic_link_dns_support"
        code == VpcError(f, vpc, call)
        answer == IF attribute = "ClassicLinkEnabled"
                  THEN <<[VpcId |-> vpc, ClassicLinkEnabled |-> vpcs[vpc].ClassicLinkEnabled]>>
                  ELSE <<[VpcId |-> vpc, ClassicLinkDnsSupported |-> vpcs[vpc].ClassicLinkDnsSupported]>>
    IN  [call |-> <<call, vpc>>,
         result |-> IF code = "none" THEN Some(answer)
                    ELSE IF code = "UnsupportedOperation"
                    THEN Some(<<[VpcId |-> vpc, ClassicLinkEnabled |-> FALSE]>>)
                    ELSE None,
         warned |-> code = "InvalidVpcID.NotFound",
         failed |-> code \notin {"none", "UnsupportedOperation", "InvalidVpcID.NotFound"}]

\* describe_vpc_attribute: the Value of the attribute or None, whether a
\* warning was issued and whether the run ended in fail_json_aws.
describe_vpc_attribute(vpcs, vpc, attribute, f) ==
    LET code == VpcError(f, vpc, attribute)
        value == IF attribute = "enableDnsSupport"
                 THEN vpcs[vpc].EnableDnsSupport
                 ELSE vpcs[vpc].EnableDnsHostnames
    IN  [call |-> <<"describe_vpc_attribute:" \o attribute, vpc>>,
         result |-> IF code = "none" THEN Some([Value |-> value]) ELSE None,
         warned |-> code = "InvalidVpcID.NotFound",
         failed |-> code \notin {"none", "InvalidVpcID.NotFound"}]

\* The value of key in the item of a ClassicLink response that belongs to
\* the VPC; None when the response is None.
VpcItemValue(result, vpc, key) ==
    IF result = None THEN None
    ELSE LET hits == {i \in 1..Len(result[1]) : result[1][i].VpcId = vpc}
         IN  IF hits = {} THEN None
             ELSE Some(result[1][CHOOSE i \in hits : \A k \in hits : k <= i][key])

\* item[key] raises KeyError for an item of the VPC that has no such key.
VpcItemKeyError(result, vpc, key) ==
    /\ result # None
    /\ \E i \in 1..Len(result[1]) :
          result[1][i].VpcId = vpc /\ key \notin DOMAIN result[1][i]

\* camel_dict_to_snake_dict of one VPC; a key that was never set is None.
VpcSnake(vpc) ==
    [id |-> vpc.id,
     vpc_id |-> vpc.VpcId,
     classic_link_enabled |-> vpc.ClassicLinkEnabled,
     classic_link_dns_supported |-> vpc.ClassicLinkDnsSupported,
     enable_dns_support |-> vpc.EnableDnsSupport,
     enable_dns_hostnames |-> vpc.EnableDnsHostnames]

\* One pass of the loop of describe_vpcs: the four calls, then the values
\* are added to the VPC.
VpcOne(vpcs, vpc, f) ==
    LET cl_enabled == describe_classic_links(vpcs, vpc, "ClassicLinkEnabled", f)
        cl_dns_support == describe_classic_links(vpcs, vpc, "ClassicLinkDnsSupported", f)
        dns_support == describe_vpc_attribute(vpcs, vpc, "enableDnsSupport", f)
        dns_hostnames == describe_vpc_attribute(vpcs, vpc, "enableDnsHostnames", f)
        steps == <<cl_enabled, cl_dns_support, dns_support, dns_hostnames>>
        failedAt == {i \in 1..4 : steps[i].failed}
        made == IF failedAt = {} THEN 4
                ELSE CHOOSE i \in failedAt : \A k \in failedAt : i <= k
        calls == [i \in 1..made |-> steps[i].call]
        warnings == SelectSeq([i \in 1..made |-> IF steps[i].warned THEN steps[i].call ELSE <<>>],
                              LAMBDA w : w # <<>>)
    IN  IF failedAt # {}
        THEN [outcome |-> "fail_json", info |-> None, warnings |-> warnings, calls |-> calls]
        ELSE IF \/ VpcItemKeyError(cl_enabled.result, vpc, "ClassicLinkEnabled")
                \/ VpcItemKeyError(cl_dns_support.result, vpc, "ClassicLinkDnsSupported")
        THEN [outcome |-> "KeyError", info |-> None, warnings |-> warnings, calls |-> calls]
        ELSE IF dns_support.result = None \/ dns_hostnames.result = None
        THEN [outcome |-> "TypeError", info |-> None, warnings |-> warnings, calls |-> calls]
        ELSE [outcome |-> "ok",
              info |-> Some(VpcSnake(
                  [id |-> vpc,
                   VpcId |-> vpc,
                   ClassicLinkEnabled |-> VpcItemValue(cl_enabled.result, vpc, "ClassicLinkEnabled"),
                   ClassicLinkDnsSupported |-> VpcItemValue(cl_dns_support.result, vpc, "ClassicLinkDnsSupported"),
                   EnableDnsSupport |-> dns_support.result[1].Value,
                   EnableDnsHostnames |-> dns_hostnames.result[1].Value])),
              warnings |-> warnings, calls |-> calls]

\* The loop of describe_vpcs over response['Vpcs'], from the i-th on.
RECURSIVE VpcLoop(_, _, _, _, _, _, _)
VpcLoop(vpcs, list, i, f, vpc_info, warnings, calls) ==
    IF i > Len(list)
    THEN [outcome |-> "exit_json", vpcs |-> vpc_info, warnings |-> warnings, calls |-> calls]
    ELSE LET one == VpcOne(vpcs, list[i], f)
         IN  IF one.outcome # "ok"
             THEN [outcome |-> one.outcome, vpcs |-> <<>>,
                   warnings |-> warnings \o one.warnings, calls |-> calls \o one.calls]
             ELSE VpcLoop(vpcs, list, i + 1, f, Append(vpc_info, one.info[1]),
                          warnings \o one.warnings, calls \o one.calls)

\* describe_vpcs: the VPCs named by vpc_ids, or all of them, each with its
\* attributes; the run ends in exit_json, fail_json or an exception.
describe_vpcs(vpcs, p, f) ==
    LET list == SelectSeq(VpcOrder, LAMBDA v : p.vpc_ids = <<>> \/ \E i \in 1..Len(p.vpc_ids) : p.vpc_ids[i] = v)
        calls == << <<"describe_vpcs", "">> >>
    IN  IF f.describe_vpcs
        THEN [outcome |-> "fail_json", vpcs |-> <<>>, warnings |-> <<>>, calls |-> calls]
        ELSE VpcLoop(vpcs, list, 1, f, <<>>, <<>>, calls)

VpcSummary(p, f, r) ==
    [params |-> Some(p), faults |-> f, outcome |-> r.outcome, vpcs |-> r.vpcs,
     warnings |-> r.warnings, calls |-> r.calls]

VpcNoRun ==
    [params |-> None,
     faults |-> [describe_vpcs |-> FALSE, unsupported |-> {}, error |-> None],
     outcome |-> "none", vpcs |-> <<>>, warnings |-> <<>>, calls |-> <<>>]

VpcInit ==
    /\ vpcVpcs \in [VpcIds -> VpcSet]
    /\ vpcLast = VpcNoRun
    /\ vpcRuns = 0

\* One run of the module.
VpcRun(p, f) ==
    /\ vpcRuns < MaxRuns
    /\ vpcLast' = VpcSummary(p, f, describe_vpcs(vpcVpcs, p, f))
    /\ vpcRuns' = vpcRuns + 1
    /\ UNCHANGED vpcVpcs

VpcNext == \E p \in VpcParamSet, f \in VpcFaultSet : VpcRun(p, f)

(***************************************************************************)
(* Specifications: one per module; the other modules' variables stay idle. *)
(***************************************************************************)
vars == <<mfVars, pgVars, eipVars, secVars, spotVars, kskVars, s3Vars, bkVars, vpcVars>>

MFIdle ==
    /\ mfFilters = [n \in MFNames |-> None]
    /\ mfBefore = mfFilters
    /\ mfParams = None
    /\ mfRuns = 0
    /\ mfLast = MFNoRun
    /\ mfPrev = MFNoRun

PGIdle ==
    /\ pgGroups = [n \in PGNames |-> None]
    /\ pgBefore = pgGroups
    /\ pgParams = None
    /\ pgRuns = 0
    /\ pgLast = PGNoRun

EIPIdle ==
    /\ eipAddrs = [n \in EIPIds |-> None]
    /\ eipBefore = eipAddrs
    /\ eipParams = None
    /\ eipRuns = 0
    /\ eipLast = EIPNoRun
    /\ eipPrev = EIPNoRun

SecIdle ==
    /\ secStore = [n \in SecNames |-> "missing"]
    /\ secLast = SecNoRun
    /\ secRuns = 0

SpotIdle ==
    /\ spotRequests = [n \in SpotIds |-> None]
    /\ spotLast = SpotNoRun
    /\ spotRuns = 0

KSKIdle ==
    /\ kskKey = None
    /\ kskBefore = None
    /\ kskLast = KSKNoRun
    /\ kskRuns = 0

S3Idle ==
    /\ s3Buckets = [n \in S3Names |-> None]
    /\ s3Last = S3NoRun
    /\ s3Runs = 0

BkIdle ==
    /\ bkPages = <<<<>>>>
    /\ bkLast = BkNoRun
    /\ bkRuns = 0

VpcIdle ==
    /\ vpcVpcs = [v \in VpcIds |-> [ClassicLinkEnabled |-> FALSE, ClassicLinkDnsSupported |-> FALSE,
                                    EnableDnsSupport |-> TRUE, EnableDnsHostnames |-> FALSE]]
    /\ vpcLast = VpcNoRun
    /\ vpcRuns = 0

MFSpecInit ==
    MFInit /\ PGIdle /\ EIPIdle /\ SecIdle /\ SpotIdle /\ KSKIdle /\ S3Idle /\ BkIdle /\ VpcIdle
MFSpecNext ==
    MFNext /\ UNCHANGED <<pgVars, eipVars, secVars, spotVars, kskVars, s3Vars, bkVars, vpcVars>>
MFSpec == MFSpecInit /\ [][MFSpecNext]_vars

PGSpecInit ==
    PGInit /\ MFIdle /\ EIPIdle /\ SecIdle /\ SpotIdle /\ KSKIdle /\ S3Idle /\ BkIdle /\ VpcIdle
PGSpecNext ==
    PGNext /\ UNCHANGED <<mfVars, eipVars, secVars, spotVars, kskVars, s3Vars, bkVars, vpcVars>>
PGSpec == PGSpecInit /\ [][PGSpecNext]_vars

EIPSpecInit ==
    EIPInit /\ MFIdle /\ PGIdle /\ SecIdle /\ SpotIdle /\ KSKIdle /\ S3Idle /\ BkIdle /\ VpcIdle
EIPSpecNext ==
    EIPNext /\ UNCHANGED <<mfVars, pgVars, secVars, spotVars, kskVars, s3Vars, bkVars, vpcVars>>
EIPSpec == EIPSpecInit /\ [][EIPSpecNext]_vars

SecSpecInit ==
    SecInit /\ MFIdle /\ PGIdle /\ EIPIdle /\ SpotIdle /\ KSKIdle /\ S3Idle /\ BkIdle /\ VpcIdle
SecSpecNext ==
    SecNext /\ UNCHANGED <<mfVars, pgVars, eipVars, spotVars, kskVars, s3Vars, bkVars, vpcVars>>
SecSpec == SecSpecInit /\ [][SecSpecNext]_vars

SpotSpecInit ==
    SpotInit /\ MFIdle /\ PGIdle /\ EIPIdle /\ SecIdle /\ KSKIdle /\ S3Idle /\ BkIdle /\ VpcIdle
SpotSpecNext ==
    SpotNext /\ UNCHANGED <<mfVars, pgVars, eipVars, secVars, kskVars, s3Vars, bkVars, vpcVars>>
SpotSpec == SpotSpecInit /\ [][SpotSpecNext]_vars

KSKSpecInit ==
    KSKInit /\ MFIdle /\ PGIdle /\ EIPIdle /\ SecIdle /\ SpotIdle /\ S3Idle /\ BkIdle /\ VpcIdle
KSKSpecNext ==
    KSKNext /\ UNCHANGED <<mfVars, pgVars, eipVars, secVars, spotVars, s3Vars, bkVars, vpcVars>>
KSKSpec == KSKSpecInit /\ [][KSKSpecNext]_vars

S3SpecInit ==
    S3Init /\ MFIdle /\ PGIdle /\ EIPIdle /\ SecIdle /\ SpotIdle /\ KSKIdle /\ BkIdle /\ VpcIdle
S3SpecNext ==
    S3Next /\ UNCHANGED <<mfVars, pgVars, eipVars, secVars, spotVars, kskVars, bkVars, vpcVars>>
S3Spec == S3SpecInit /\ [][S3SpecNext]_vars

BkSpecInit ==
    BkInit /\ MFIdle /\ PGIdle /\ EIPIdle /\ SecIdle /\ SpotIdle /\ KSKIdle /\ S3Idle /\ VpcIdle
BkSpecNext ==
    BkNext /\ UNCHANGED <<mfVars, pgVars, eipVars, secVars, spotVars, kskVars, s3Vars, vpcVars>>
BkSpec == BkSpecInit /\ [][BkSpecNext]_vars

VpcSpecInit ==
    VpcInit /\ MFIdle /\ PGIdle /\ EIPIdle /\ SecIdle /\ SpotIdle /\ KSKIdle /\ S3Idle /\ BkIdle
VpcSpecNext ==
    VpcNext /\ UNCHANGED <<mfVars, pgVars, eipVars, secVars, spotVars, kskVars, s3Vars, bkVars>>
VpcSpec == VpcSpecInit /\ [][VpcSpecNext]_vars

\* C1 (as claimed): two successive live runs with state=present and identical
\* parameters: once the first has exited, the second exits with changed=false
\* and has issued no put_metric_filter call.
C1_MFIdempotent ==
    (/\ mfRuns >= 2
     /\ mfParams[1].state = "present"
     /\ ~mfPrev.check_mode /\ ~mfLast.check_mode
     /\ mfPrev.outcome = "exit_json")
    => (mfLast.outcome = "exit_json" /\ ~mfLast.changed /\ mfLast.calls = <<>>)

\* C2 (as claimed): after a successful live run, state=present leaves a
\* filter named exactly filter_name holding the desired pattern and metric
\* transformation, and state=absent leaves no filter named filter_name.
C2_MFConverges ==
    (mfRuns >= 1 /\ ~mfLast.check_mode /\ mfLast.outcome = "exit_json")
    => LET p == mfParams[1]
       IN  IF p.state = "present"
           THEN mfFilters[p.filter_name] =
                    Some([filterPattern |-> p.filter_pattern,
                          metricTransformations |-> MFHandlerRetval(p.metric_transformation)])
           ELSE mfFilters[p.filter_name] = None

\* C3 (as claimed): a check-mode run issues no put_metric_filter and no
\* delete_metric_filter call, leaves the log group as it was, and when it
\* reports a changed value, a live run from the same log group and
\* parameters reports that same value.
C3_MFCheckModeAgrees ==
    (mfRuns >= 1 /\ mfLast.check_mode)
    => /\ mfLast.calls = <<>>
       /\ mfFilters = mfBefore
       /\ LET live == MFMain(mfBefore, mfParams[1], FALSE)
          IN  mfLast.outcome = "exit_json"
              => (live.outcome = "exit_json" /\ live.changed = mfLast.changed)

PGMutations(calls) ==
    Count(calls, "create_placement_group") + Count(calls, "delete_placement_group")

\* partition_count is given with a strategy other than partition.
PGContradictory(p) == p.strategy # "partition" /\ p.partition_count # None

\* C5 (as claimed): a check-mode run to which the service answers
\* DryRunOperation leaves the placement groups as they were and ends in
\* exit_json with changed=true, both for state=present with no such group
\* and for state=absent with the group existing.
C5_PGCheckMode ==
    (pgRuns >= 1 /\ pgLast.check_mode /\ pgLast.faults = PGNoFaults)
    => LET p == pgParams[1]
           exists == pgBefore[p.name] # None
       IN  /\ pgGroups = pgBefore
           /\ (p.state = "present" /\ ~exists /\ ~PGContradictory(p))
              => (pgLast.outcome = "exit_json" /\ pgLast.changed)
           /\ (p.state = "absent" /\ exists)
              => (pgLast.outcome = "exit_json" /\ pgLast.changed)

\* C7: state=present, the describe call returns the one group of that name,
\* which has another strategy: the run ends
\* in fail_json, issues neither create_placement_group nor
\* delete_placement_group, and the group keeps its strategy.
C7_PGStrategyConflict ==
    (/\ pgRuns >= 1
     /\ pgParams[1].state = "present"
     /\ pgBefore[pgParams[1].name] # None
     /\ ~pgLast.faults.shared
     /\ pgBefore[pgParams[1].name][1].Strategy # pgParams[1].strategy)
    => /\ pgLast.outcome = "fail_json"
       /\ PGMutations(pgLast.calls) = 0
       /\ pgGroups = pgBefore

C7_Witness ==
    /\ pgRuns >= 1
    /\ pgParams[1].state = "present"
    /\ pgParams[1].strategy = "spread"
    /\ pgBefore[pgParams[1].name] # None
    /\ pgBefore[pgParams[1].name][1].Strategy = "cluster"
    /\ pgLast.faults = PGNoFaults
    /\ ~pgLast.check_mode
    /\ pgLast.outcome = "fail_json"

\* C8 (as claimed): a live run with state=present and no group of that name
\* issues create_placement_group at most once whatever the service answers,
\* exactly once when no call fails, and when it exits it reports
\* changed=true with the group as describe_placement_groups returns it.
C8_PGCreateOnce ==
    (/\ pgRuns >= 1
     /\ ~pgLast.check_mode
     /\ pgParams[1].state = "present"
     /\ ~PGContradictory(pgParams[1])
     /\ pgBefore[pgParams[1].name] = None)
    => LET p == pgParams[1]
       IN  /\ Count(pgLast.calls, "create_placement_group") <= 1
           /\ pgLast.outcome = "exit_json"
              => /\ pgLast.changed
                 /\ pgGroups[p.name] # None
                 /\ pgLast.placement_group = Some(PGDict(p.name, pgGroups[p.name][1]))
           /\ pgLast.faults = PGNoFaults
              => /\ Count(pgLast.calls, "create_placement_group") = 1
                 /\ pgLast.outcome = "exit_json"

\* C9: the no-op cases.  state=present with a group of the requested
\* strategy, and state=absent with no group (the describe call returning no
\* group of another account): neither create_placement_group
\* nor delete_placement_group is called, the groups stay as they were, and
\* unless the describe call itself failed the run exits with changed=false
\* (returning the observed group when state=present).
C9_PGNoOp ==
    (pgRuns >= 1)
    => LET p == pgParams[1]
           before == pgBefore[p.name]
           noop == \/ p.state = "present" /\ before # None /\ before[1].Strategy = p.strategy
                   \/ p.state = "absent" /\ before = None
       IN  (noop /\ ~pgLast.faults.shared)
           => /\ PGMutations(pgLast.calls) = 0
              /\ pgGroups = pgBefore
              /\ ~pgLast.faults.search
                 => /\ pgLast.outcome = "exit_json"
                    /\ ~pgLast.changed
                    /\ p.state = "present"
                       => pgLast.placement_group = Some(PGDict(p.name, before[1]))

C9_Witness ==
    /\ pgRuns >= 1
    /\ pgParams[1].state = "present"
    /\ pgBefore[pgParams[1].name] # None
    /\ pgBefore[pgParams[1].name][1].Strategy = pgParams[1].strategy
    /\ ~pgLast.check_mode
    /\ pgLast.outcome = "exit_json"
    /\ ~pgLast.changed
    /\ pgLast.placement_group # None

EIPMutatingCalls ==
    {"allocate_address", "associate_address", "disassociate_address", "release_address",
     "modify_address_attribute"}

\* C4 (as claimed): a check-mode run issues none of allocate_address,
\* associate_address, disassociate_address, release_address and
\* modify_address_attribute, and leaves the addresses as they were.
C4_EIPCheckMode ==
    (eipRuns >= 1 /\ eipLast.check_mode)
    => /\ \A op \in EIPMutatingCalls : Count(eipLast.calls, op) = 0
       /\ eipAddrs = eipBefore

C6_Settled ==
    /\ eipParams[1].device_id # None
    /\ eipParams[1].in_vpc
    /\ ~eipParams[1].update_reverse_dns_record
    /\ eipParams[1].public_ip # None => eipBefore[eipParams[1].public_ip[1]] # None
    /\ \A n \in EIPIds : eipBefore[n] # None => eipBefore[n][1].Domain = "vpc"

SecOnlyTerm(s) ==
    /\ secLast.op \in {"run", "get_secret_value"}
    /\ Len(secLast.terms) = 1
    /\ ~secLast.bypath
    /\ secStore[secLast.terms[1]] = s

\* The outcome the policy asks for when a secret fails: error is fatal, skip
\* returns nothing without a warning, warn returns nothing with one warning.
SecHonours(policy) ==
    IF policy \in {None, Some("error")}
    THEN secLast.outcome = "AnsibleError"
    ELSE /\ secLast.outcome = "return"
         /\ secLast.value \in {<<>>, << <<>> >>}
         /\ Len(secLast.warnings) = (IF policy = Some("warn") THEN 1 ELSE 0)

\* C10 (as claimed): a lookup of one secret that get_secret_value reports
\* missing ends as on_missing says, and one it reports denied ends as
\* on_denied says: error raises AnsibleError, skip returns without the secret
\* and without a warning, warn returns without the secret and with a warning.
C10_SecretPolicy ==
    /\ SecOnlyTerm("missing") => SecHonours(secLast.on_missing)
    /\ SecOnlyTerm("denied") => SecHonours(secLast.on_denied)

\* The last operation reached client.get_secret_value, and the service
\* answered its last call with a ClientError of another code than
\* ResourceNotFoundException and AccessDeniedException.
SecOtherError ==
    /\ Len(secLast.calls) > 0
    /\ secStore[secLast.calls[Len(secLast.calls)]] = "error"

\* C11: an API error from get_secret_value that is neither
\* ResourceNotFoundException nor AccessDeniedException ends in AnsibleError
\* whatever on_missing and on_denied are, and no value is returned.
C11_SecretOtherErrorFatal ==
    SecOtherError => /\ secLast.outcome = "AnsibleError"
                     /\ secLast.value = None

\* get_secret_value met such an error under on_missing=skip and
\* on_denied=warn and raised AnsibleError.
C11_Witness ==
    /\ SecOtherError
    /\ secLast.op = "get_secret_value"
    /\ secLast.on_missing = Some("skip")
    /\ secLast.on_denied = Some("warn")
    /\ secLast.outcome = "AnsibleError"

\* The values of the terms the service holds, in the order of terms.
RECURSIVE SecFoundValues(_, _)
SecFoundValues(terms, i) ==
    IF i > Len(terms) THEN <<>>
    ELSE (IF secStore[terms[i]] = "found" THEN <<SecValue[terms[i]]>> ELSE <<>>)
         \o SecFoundValues(terms, i + 1)

\* C12 (as claimed): a lookup through run with bypath=false, on_missing and
\* on_denied each skip or warn, and every term found, missing or denied:
\* get_secret_value is called once per term in the order of terms, and the
\* list returned holds the values of the terms found, in that order.
C12_SecretBatch ==
    (/\ secLast.op = "run"
     /\ ~secLast.bypath /\ ~secLast.join
     /\ secLast.on_missing \in {Some("skip"), Some("warn")}
     /\ secLast.on_denied \in {Some("skip"), Some("warn")}
     /\ \A i \in 1..Len(secLast.terms) : secStore[secLast.terms[i]] # "error")
    => /\ secLast.outcome = "return"
       /\ secLast.calls = secLast.terms
       /\ secLast.value = SecFoundValues(secLast.terms, 1)

\* The addresses of the account, before the last run, that the lookup of
\* main matches: the one with the public_ip given, else those attached to
\* the device given.
EIPLookupMatches ==
    LET p == eipParams[1]
    IN  {n \in EIPIds :
            /\ eipBefore[n] # None
            /\ IF p.public_ip # None THEN p.public_ip = Some(n)
               ELSE p.device_id # None /\ eipBefore[n][1].Device = p.device_id}

\* C13: a run of ec2_eip (update_reverse_dns_record unset) whose lookup of
\* the existing address matches more than one address ends in a fatal error,
\* issues no allocate_address, associate_address, disassociate_address or
\* release_address call and leaves every address as it was.
C13_EIPAmbiguousLookup ==
    (/\ eipRuns >= 1
     /\ ~eipParams[1].update_reverse_dns_record
     /\ Cardinality(EIPLookupMatches) > 1)
    => /\ eipLast.outcome = "fail_json"
       /\ \A op \in {"allocate_address", "associate_address",
                     "disassociate_address", "release_address"} :
             Count(eipLast.calls, op) = 0
       /\ eipAddrs = eipBefore

\* A live state=present run found two addresses attached to the instance
\* and failed.
C13_Witness ==
    /\ eipRuns >= 1
    /\ eipParams[1].state = "present"
    /\ eipParams[1].device_id = Some(EIPInstance)
    /\ eipParams[1].public_ip = None
    /\ Cardinality(EIPLookupMatches) = 2
    /\ ~eipLast.check_mode
    /\ eipLast.outcome = "fail_json"

\* C14 (as claimed): when the describe call of search_placement_group
\* returns more than one group for the requested name, the run ends in
\* fail_json and issues neither create_placement_group nor
\* delete_placement_group.
C14_PGAmbiguous ==
    (/\ pgRuns >= 1
     /\ pgBefore[pgParams[1].name] # None
     /\ pgLast.faults.shared)
    => /\ pgLast.outcome = "fail_json"
       /\ PGMutations(pgLast.calls) = 0

\* C15 (as claimed): when describe_metric_filters, queried by
\* filterNamePrefix=filter_name, returns more than one filter, the run ends
\* in a fatal error and issues neither put_metric_filter nor
\* delete_metric_filter.
C15_MFAmbiguous ==
    (/\ mfRuns >= 1
     /\ Len(describe_metric_filters(mfBefore, mfParams[1].filter_name)) > 1)
    => /\ mfLast.outcome = "fail_json"
       /\ mfLast.calls = <<>>
       /\ mfFilters = mfBefore

\* C16 (as claimed): a run of ec2_placement_group given partition_count with
\* a strategy other than partition ends in fail_json without having issued
\* any API call, not even the describe call, whether or not the group
\* exists.
C16_PGValidationFirst ==
    (pgRuns >= 1 /\ PGContradictory(pgParams[1]))
    => /\ pgLast.outcome = "fail_json"
       /\ pgLast.calls = <<>>

\* C17 (as claimed): when the describe call of search_placement_group is
\* answered with a throttling error, the call is repeated, and a run in
\* which nothing else fails and nothing is to be done does not fail.
C17_PGSearchRetried ==
    (pgRuns >= 1 /\ pgLast.faults.search)
    => /\ Count(pgLast.calls, "describe_placement_groups") >= 2
       /\ (pgParams[1].state = "absent" /\ pgBefore[pgParams[1].name] = None)
          => pgLast.outcome = "exit_json"

\* C18 (as claimed): state=present with dimensions = {} against the one
\* existing filter, which has no dimensions and equals the desired pattern
\* and metric transformation in every other field: the run exits with
\* changed=false and issues no put_metric_filter call.
C18_MFEmptyDimensions ==
    LET p == mfParams[1]
        mt == p.metric_transformation
        response == describe_metric_filters(mfBefore, p.filter_name)
        origin == response[1].metricTransformations
    IN  (/\ mfRuns >= 1
         /\ p.state = "present"
         /\ Len(response) = 1
         /\ response[1].filterPattern = p.filter_pattern
         /\ mt.dimensions = Some({})
         /\ origin.dimensions = None
         /\ origin.metricName = mt.metric_name
         /\ origin.metricNamespace = mt.metric_namespace
         /\ origin.metricValue = mt.metric_value
         /\ origin.defaultValue = mt.default_value
         /\ origin.unit = mt.unit
         /\ mt.default_value = None)
        => /\ mfLast.outcome = "exit_json"
           /\ ~mfLast.changed
           /\ mfLast.calls = <<>>

\* C19 (as claimed): every run of ec2_spot_instance_info that exits
\* successfully, in check mode or not, reports changed=false.
C19_SpotNeverChanged ==
    (spotRuns >= 1 /\ spotLast.outcome = "exit_json") => ~spotLast.changed

C21_EIPAbsentRelease ==
    (/\ eipRuns >= 1
     /\ eipParams[1].state = "absent"
     /\ ~eipParams[1].update_reverse_dns_record)
    => LET p == eipParams[1]
           found == EIPLookupMatches
           notAttached == \A n \in found : eipBefore[n][1].Device # p.device_id
       IN  /\ Count(eipLast.calls, "release_address") > 0
              => /\ Cardinality(found) = 1
                 /\ \/ p.device_id = None
                    \/ /\ Count(eipLast.calls, "disassociate_address") = 1
                       /\ eipLast.disassociated
                       /\ p.release_on_disassociation
           /\ (p.device_id # None /\ notAttached)
              => /\ Count(eipLast.calls, "disassociate_address") = 0
                 /\ Count(eipLast.calls, "release_address") = 0
                 /\ ~eipLast.disassociated /\ ~eipLast.released
           /\ eipLast.outcome = "exit_json"
              => eipLast.changed = (eipLast.disassociated \/ eipLast.released)

\* A live run disassociated the address from the device and then released
\* it, release_on_disassociation being true.
C21_Witness ==
    /\ eipRuns >= 1
    /\ eipParams[1].state = "absent"
    /\ eipParams[1].device_id # None
    /\ eipParams[1].release_on_disassociation
    /\ ~eipLast.check_mode
    /\ eipLast.calls = <<"disassociate_address", "release_address">>
    /\ eipLast.outcome = "exit_json"
    /\ eipLast.changed /\ eipLast.disassociated /\ eipLast.released

\* The addresses that, before the last run, are attached to no device, are
\* in the domain the parameters ask for and carry the tag key searched for.
EIPReusable ==
    LET p == eipParams[1]
        dom == IF p.in_vpc THEN "vpc" ELSE "standard"
    IN  {n \in EIPIds :
            /\ eipBefore[n] # None
            /\ eipBefore[n][1].Device = None
            /\ eipBefore[n][1].Domain = dom
            /\ p.tag_name # None => \E kv \in eipBefore[n][1].Tags : kv[1] = p.tag_name[1]}

\* C22: a state=present run with reuse_existing_ip_allowed=true whose lookup
\* found no address.  When an unattached address of the requested domain
\* matching the search tags exists, no allocate_address call is issued and
\* the allocation step returns such an address with changed=false; when
\* none exists, the step reports changed=true and a live run issues exactly
\* one allocate_address call.
C22_EIPReuse ==
    (/\ eipRuns >= 1
     /\ eipParams[1].state = "present"
     /\ ~eipParams[1].update_reverse_dns_record
     /\ eipParams[1].reuse_existing_ip_allowed
     /\ ~check_is_instance(eipParams[1]).failed
     /\ EIPLookupMatches = {})
    => LET p == eipParams[1]
           step == allocate_address(eipBefore, eipLast.check_mode, generate_tag_dict(p),
                                    IF p.in_vpc THEN Some("vpc") ELSE None,
                                    p.reuse_existing_ip_allowed, p.tags, <<>>)
       IN  IF EIPReusable # {}
           THEN /\ Count(eipLast.calls, "allocate_address") = 0
                /\ step.address # None /\ step.address[1] \in EIPReusable
                /\ ~step.changed
                /\ step.addrs = eipBefore
           ELSE /\ step.changed
                /\ Count(eipLast.calls, "allocate_address")
                      = (IF eipLast.check_mode THEN 0 ELSE 1)

\* A live run reused an unattached address and associated it with the
\* device instead of allocating one.
C22_Witness ==
    /\ eipRuns >= 1
    /\ eipParams[1].state = "present"
    /\ eipParams[1].reuse_existing_ip_allowed
    /\ eipParams[1].device_id # None
    /\ EIPLookupMatches = {}
    /\ EIPReusable # {}
    /\ ~eipLast.check_mode
    /\ eipLast.outcome = "exit_json"
    /\ Count(eipLast.calls, "allocate_address") = 0
    /\ Count(eipLast.calls, "associate_address") = 1

\* C23 (as claimed): a run of s3_bucket_info with bucket_facts.bucket_location
\* true returns, for a listed us-east-1 bucket whose location call succeeds,
\* 'us-east-1' when transform_location is true and the null
\* LocationConstraint unchanged when it is false.
C23_S3TransformLocation ==
    (/\ s3Runs >= 1
     /\ s3Last.outcome = "exit_json"
     /\ s3Last.params[1].bucket_facts # None
     /\ s3Last.params[1].bucket_facts[1]["bucket_location"])
    => \A i \in 1..Len(s3Last.buckets) :
          LET b == s3Last.buckets[i]
          IN  (/\ s3Buckets[b.name][1].LocationConstraint = None
               /\ s3Last.faults.get # Some(<<b.name, "bucket_location">>))
              => S3Get(b.facts[1]["bucket_location"], "LocationConstraint")
                    = (IF s3Last.params[1].transform_location
                       THEN Some("us-east-1") ELSE None)

\* C30: a run of s3_bucket_info with bucket_facts given, list_buckets
\* succeeding and at most one get call answered with a ClientError.  The run
\* exits normally with every listed bucket; the facts of each bucket have
\* exactly the requested facts whose value is true as keys, the fact whose
\* call failed is the empty dict, every other fact holds the answer of its
\* call, and one get call was issued per requested fact and bucket.
C30_S3FactErrorIsolated ==
    (/\ s3Runs >= 1
     /\ s3Last.params[1].bucket_facts # None
     /\ ~s3Last.faults.list)
    => LET p == s3Last.params[1]
           requested == {k \in S3Facts : p.bucket_facts[1][k]}
           listed == get_bucket_list(s3Buckets, p.name, p.name_filter)
       IN  /\ s3Last.outcome = "exit_json"
           /\ Len(s3Last.buckets) = Len(listed)
           /\ \A i \in 1..Len(listed) :
                 LET b == s3Last.buckets[i]
                 IN  /\ b.name = listed[i]
                     /\ DOMAIN b.facts[1] = requested
                     /\ \A k \in requested :
                           /\ (b.facts[1][k] = {}) = (s3Last.faults.get = Some(<<b.name, k>>))
                           /\ Count(s3Last.calls, <<"get_" \o k, b.name>>) = 1

\* The location call of bucket b1 failed while two facts were requested of
\* two buckets, and the run exited.
C30_Witness ==
    /\ s3Runs >= 1
    /\ s3Last.outcome = "exit_json"
    /\ s3Last.faults.get = Some(<<"b1", "bucket_location">>)
    /\ s3Last.params[1].bucket_facts
          = Some([bucket_acl |-> FALSE, bucket_location |-> TRUE, bucket_tagging |-> TRUE])
    /\ Len(s3Last.buckets) = 2
    /\ s3Last.buckets[1].facts[1]["bucket_location"] = {}
    /\ s3Last.buckets[1].facts[1]["bucket_tagging"] # {}

\* C24: get_plan_details is a read: whenever it returns, for a plan that was
\* found and for one that was not, module.params equals its value at entry.
C24_BkParamsUnchanged ==
    (bkRuns >= 1 /\ bkLast.outcome = "return")
    => bkLast.params = bkLast.entry

\* C27: _list_backup_plans on a finite chain of pages.  The pages are
\* requested one after the other, each once, the first without a token and
\* each later one with the NextToken of the page before it, up to the first
\* page that holds a plan of the requested name (or the last page); the id
\* returned is the one of the first such plan of that page, or None when no
\* page holds one, and in that case get_plan_details returns [] and
\* get_backup_plan is never called.
C27_BkListBackupPlans ==
    bkRuns >= 1 =>
    LET name == bkLast.entry[1].backup_plan_names[1]
        hitPages == {i \in 1..Len(bkPages) :
                       \E j \in 1..Len(bkPages[i]) : bkPages[i][j].BackupPlanName = name}
        last == IF hitPages = {} THEN Len(bkPages)
                ELSE CHOOSE i \in hitPages : \A k \in hitPages : i <= k
        tokenOf(i) == IF i = 1 THEN None ELSE BkListBackupPlans(bkPages, IF i = 2 THEN None ELSE Some(i - 1)).NextToken
        listed == SelectSeq(bkLast.calls, LAMBDA c : c[1] = "list_backup_plans")
        got == SelectSeq(bkLast.calls, LAMBDA c : c[1] = "get_backup_plan")
    IN  /\ listed = [i \in 1..last |-> <<"list_backup_plans", tokenOf(i)>>]
        /\ \A i \in 1..Len(listed) : Count(listed, listed[i]) = 1
        /\ IF hitPages = {}
           THEN /\ got = <<>>
                /\ bkLast.outcome = "return"
                /\ bkLast.result = <<>>
           ELSE LET page == bkPages[last]
                    j == CHOOSE j \in 1..Len(page) :
                            /\ page[j].BackupPlanName = name
                            /\ \A k \in 1..(j - 1) : page[k].BackupPlanName # name
                IN  got = << <<"get_backup_plan", Some(page[j].BackupPlanId)>> >>

\* The name sits on the third page behind another plan of that page, and
\* three pages were requested.
C27_Witness ==
    /\ bkRuns >= 1
    /\ Len(bkPages) = 3
    /\ bkPages[1] = <<BkPlan("p3")>>
    /\ bkPages[2] = <<>>
    /\ Len(bkPages[3]) = 3
    /\ bkLast.entry[1].backup_plan_names[1] = "daily"
    /\ bkLast.outcome = "return"
    /\ Len(bkLast.result) = 1
    /\ bkLast.result[1].BackupPlanId = "p2"
    /\ Count(bkLast.calls, <<"list_backup_plans", Some(3)>>) = 1

\* C25: a state=absent run of route53_ksk when the zone has no such key.
\* The first call of the run, deactivate_key_signing_key when status is
\* INACTIVE and delete_key_signing_key otherwise, is answered
\* NoSuchKeySigningKey; it is the only call of the run, which exits with
\* changed=false and an empty result.  A state=absent run that deleted the
\* key leaves no key behind, so that a state=absent run right after it
\* reports changed=false.
C25_KSKAbsentMissingKey ==
    /\ [](  (/\ kskRuns >= 1
             /\ kskLast.params[1].state = "absent"
             /\ kskBefore = None)
          => /\ kskLast.outcome = "exit_json"
             /\ ~kskLast.changed
             /\ kskLast.result = None
             /\ kskLast.calls = << IF kskLast.params[1].status = "INACTIVE"
                                   THEN "deactivate_key_signing_key"
                                   ELSE "delete_key_signing_key" >>
             /\ kskKey = None )
    /\ [][ (/\ kskRuns >= 1
            /\ kskLast.params[1].state = "absent"
            /\ kskLast.outcome = "exit_json"
            /\ kskLast.changed
            /\ kskRuns' = kskRuns + 1
            /\ kskLast'.params[1].state = "absent")
           => (kskLast'.outcome = "exit_json" /\ ~kskLast'.changed) ]_vars

\* A second state=absent run, with status INACTIVE, met no key.
C25_Witness ==
    /\ kskRuns = 2
    /\ kskBefore = None
    /\ kskLast.params[1].state = "absent"
    /\ kskLast.params[1].status = "INACTIVE"
    /\ kskLast.outcome = "exit_json"
    /\ ~kskLast.changed
    /\ kskLast.calls = <<"deactivate_key_signing_key">>

\* C26: a state=present run of route53_ksk.  For a KSK that existed before
\* the run (the create response carries its earlier SubmittedAt): with the
\* requested status the run exits with changed=false and neither activates
\* nor deactivates; with another status the second call is the wait on the
\* returned change and, once that wait has completed, the third is the one
\* activate_key_signing_key (status ACTIVE) or deactivate_key_signing_key
\* (status INACTIVE) of the run, the other of the two is never called, and a
\* run that exits reports changed=true.  For a KSK created by the run,
\* changed=true and neither call is made.
C26_KSKPresent ==
    (kskRuns >= 1 /\ kskLast.params[1].state = "present")
    => LET p == kskLast.params[1]
           op == IF p.status = "ACTIVE" THEN "activate_key_signing_key"
                 ELSE "deactivate_key_signing_key"
           other == IF p.status = "ACTIVE" THEN "deactivate_key_signing_key"
                    ELSE "activate_key_signing_key"
           toggles == Count(kskLast.calls, "activate_key_signing_key")
                      + Count(kskLast.calls, "deactivate_key_signing_key")
       IN  /\ kskLast.calls[1] = "create_key_signing_key"
           /\ kskBefore = None
              => /\ kskLast.outcome = "exit_json"
                 /\ kskLast.changed
                 /\ toggles = 0
           /\ (kskBefore # None /\ kskBefore = Some(p.status))
              => /\ kskLast.outcome = "exit_json"
                 /\ ~kskLast.changed
                 /\ toggles = 0
           /\ (kskBefore # None /\ kskBefore # Some(p.status))
              => /\ Len(kskLast.calls) >= 2
                 /\ kskLast.calls[2] = "wait"
                 /\ Count(kskLast.calls, other) = 0
                 /\ IF kskLast.timeout = 1
                    THEN kskLast.outcome = "fail_json" /\ toggles = 0
                    ELSE /\ Count(kskLast.calls, op) = 1
                         /\ kskLast.calls[3] = op
                 /\ kskLast.outcome = "exit_json" => kskLast.changed

\* An INACTIVE key was asked to be ACTIVE: waited, then activated.
C26_Witness ==
    /\ kskRuns >= 1
    /\ kskBefore = Some("INACTIVE")
    /\ kskLast.params[1].state = "present"
    /\ kskLast.params[1].status = "ACTIVE"
    /\ kskLast.outcome = "exit_json"
    /\ kskLast.changed
    /\ kskLast.calls[2] = "wait"
    /\ kskLast.calls[3] = "activate_key_signing_key"
    /\ kskKey = Some("ACTIVE")

\* The VPCs a run of ec2_vpc_net_info describes.
VpcDescribed ==
    SelectSeq(VpcOrder, LAMBDA v : vpcLast.params[1].vpc_ids = <<>>
                                   \/ \E i \in 1..Len(vpcLast.params[1].vpc_ids) :
                                         vpcLast.params[1].vpc_ids[i] = v)

\* C28 (as claimed): in a run of ec2_vpc_net_info in which one
\* describe_vpc_attribute or ClassicLink describe call on a described VPC is
\* answered InvalidVpcID.NotFound (and no call is answered with another
\* error), a warning is issued and the run ends in exit_json with a vpcs
\* list.
C28_VpcNotFoundWarns ==
    (/\ vpcRuns >= 1
     /\ ~vpcLast.faults.describe_vpcs
     /\ vpcLast.faults.unsupported = {}
     /\ vpcLast.faults.error # None
     /\ vpcLast.faults.error[1][3] = "InvalidVpcID.NotFound"
     /\ \E i \in 1..Len(VpcDescribed) : VpcDescribed[i] = vpcLast.faults.error[1][1])
    => /\ vpcLast.outcome = "exit_json"
       /\ Len(vpcLast.warnings) >= 1
       /\ Len(vpcLast.vpcs) = Len(VpcDescribed)

\* C29 (as claimed): in a run of ec2_vpc_net_info in which the region
\* answers UnsupportedOperation to ClassicLink describe calls (and no call
\* is answered with another error), the run ends in exit_json, and every
\* VPC has classic_link_enabled false when describe_vpc_classic_link was
\* answered so.
C29_VpcUnsupportedOperation ==
    (/\ vpcRuns >= 1
     /\ ~vpcLast.faults.describe_vpcs
     /\ vpcLast.faults.unsupported # {}
     /\ vpcLast.faults.error = None)
    => /\ vpcLast.outcome = "exit_json"
       /\ Len(vpcLast.vpcs) = Len(VpcDescribed)
       /\ "describe_vpc_classic_link" \in vpcLast.faults.unsupported
          => \A i \in 1..Len(vpcLast.vpcs) :
                vpcLast.vpcs[i].classic_link_enabled = Some(FALSE)

====
